---- MODULE Spec2Model ----
(***************************************************************************)
(* A model of the EmailSummarizer extraction core:                         *)
(*   - src/processors/text_extractor.py   (PDFTextExtractor, TextCleaner)  *)
(*   - src/processors/email_parser.py     (EmailParser)                    *)
(*   - src/processors/native_msg_parser.py (NativeMsgParser)               *)
(*   - src/core/pdf_email_summarizer.py   (PDFEmailSummarizer)             *)
(* Text is a sequence of one-character strings, so that the string         *)
(* functions of the code (strip, split, lower, the regular expressions)    *)
(* are computed, not assumed.                                              *)
(***************************************************************************)
EXTENDS Integers, Sequences, FiniteSets, TLC

VARIABLES
    \* ---- EmailParser.split_email_threads applied to a bounded text ----
    chunks_in,      \* the input text as the sequence of chunks it is built from
    split_pc,       \* "ready" | "done"
    emails_out      \* the list split_email_threads returned

splitVars == <<chunks_in, split_pc, emails_out>>

VARIABLES
    \* ---- PDFEmailSummarizer._process_pdf_file on one PDF ----
    doc,            \* the PDF: whether PyPDF2 can read it, and its pages
    ocr_in,         \* what the OCR backend does with this PDF
    ocr_available,  \* PDFTextExtractor.ocr_available
    max_workers,    \* PDFTextExtractor.max_workers
    pc,             \* where the call stands
    ocr_site,       \* the call site of the running _extract_text_with_ocr
    task,           \* the state of each submitted future
    future,         \* the outcome of each finished future
    yielded,        \* the futures as_completed has yielded
    yield_order,    \* the page indices in the order as_completed yielded them
    page_texts,     \* the results buffer of _extract_pages_parallel
    text,           \* the local variable text
    parallel_ret,   \* what _extract_pages_parallel returned, if it has
    ocr_ret,        \* what the last _extract_text_with_ocr returned, if it has
    ocr_calls,      \* how often _extract_text_with_ocr was called
    raw_text,       \* what extract_text_from_pdf returned
    clean_text,     \* the local clean_text of _process_pdf_file
    result,         \* what _process_pdf_file returned
    run,            \* 1 in the first run of the pipeline, 2 in the second
    first_result    \* the result of the first run, once there is a second

pdfIn == <<doc, ocr_in, ocr_available, max_workers>>

poolVars == <<task, future, yielded, yield_order>>

pdfVars == <<pdfIn, pc, ocr_site, poolVars, page_texts, text, parallel_ret,
             ocr_ret, ocr_calls, raw_text, clean_text, result, run,
             first_result>>

VARIABLES
    \* ---- NativeMsgParser.parse_msg_file on one message file ----
    msg_in,         \* the file: its bytes, and what goes wrong when it is read
    msg_pc,         \* where the call stands
    msg_trace,      \* the tiers that have run, in the order they ran
    email_data,     \* the local email_data of _parse_msg_stream
    msg_result      \* what parse_msg_file returned

msgVars == <<msg_in, msg_pc, msg_trace, email_data, msg_result>>

VARIABLES
    \* ---- TextCleaner.clean_email_text applied to a bounded text ----
    clean_in,       \* the input text as the sequence of chunks it is built from
    clean_pc,       \* "ready" | "done"
    clean_out       \* the text clean_email_text returned

cleanVars == <<clean_in, clean_pc, clean_out>>

VARIABLES
    \* ---- the worker count of a PDFTextExtractor ----
    cpu_count,      \* what multiprocessing.cpu_count() returns
    configured,     \* the count last given: {} for None, {n} for n
    workers_pc,     \* "new" before __init__, then "ready"
    pool_size       \* the max_workers of the last pool opened, {} before

workerVars == <<cpu_count, configured, workers_pc, pool_size>>

\* the variables of a call of _process_pdf_file, all but the worker count
pdfCallVars == <<doc, ocr_in, ocr_available, pc, ocr_site, poolVars, page_texts,
                 text, parallel_ret, ocr_ret, ocr_calls, raw_text, clean_text,
                 result, run, first_result>>

VARIABLES
    \* ---- EmailFileProcessor._extract_text_from_attachment ----
    att_in,         \* the attachment: its file name, its bytes, what goes wrong
    att_pc,         \* where the call stands
    tmp_exists,     \* whether the temporary file of the call exists
    att_ret         \* what the call returned

attVars == <<att_in, att_pc, tmp_exists, att_ret>>

VARIABLES
    \* ---- PDFEmailSummarizer.summarize_emails_from_file on one file ----
    file_in,        \* the path given, the file, the summarization collaborator
    file_pc,        \* where the call stands
    file_trace,     \* the extractors and the collaborator called, in order
    file_email_data,\* the local email_data of _process_email_file
    file_parsed,    \* what the last process_email_file returned
    file_result     \* what summarize_emails_from_file returned

fileVars == <<file_in, file_pc, file_trace, file_email_data, file_parsed,
              file_result>>

VARIABLES
    \* ---- NativeMsgParser._detect_attachments applied to a bounded buffer ----
    det_in,         \* the buffer as the sequence of the lines it is built from
    det_pc,         \* "ready" | "done"
    det_out         \* the pair _detect_attachments returned

detVars == <<det_in, det_pc, det_out>>

VARIABLES
    \* ---- EmailFileProcessor._process_eml_file on one message ----
    eml_in,         \* the message: its headers and the parts of its walk
    eml_pc,         \* "ready" | "done"
    eml_out         \* the record _process_eml_file returned

emlVars == <<eml_in, eml_pc, eml_out>>

VARIABLES
    \* ---- another actor that writes the file while it is summarised ----
    replacements    \* how often the file was replaced or removed

raceVars == <<replacements>>

VARIABLES
    \* ---- the handlers of /api/summarize, one thread for each request ----
    requests,       \* for each request: the file uploaded, if any
    disk,           \* for each path: the bytes of the file there, {} if none
    handler_pc,     \* for each request: where its handler stands
    file_path,      \* for each request: the local file_path of its handler
    results,        \* for each request: what summarize_emails_from_file gave
    responses       \* for each request: the status of the response sent

webVars == <<requests, disk, handler_pc, file_path, results, responses>>

nonPdfVars == <<splitVars, msgVars, cleanVars, workerVars, attVars, fileVars,
    detVars, emlVars, raceVars, webVars>>

nonMsgVars == <<splitVars, pdfVars, cleanVars, workerVars, attVars, fileVars,
    detVars, emlVars, raceVars, webVars>>

nonSplitVars == <<pdfVars, msgVars, cleanVars, workerVars, attVars, fileVars,
    detVars, emlVars, raceVars, webVars>>

nonCleanVars == <<splitVars, pdfVars, msgVars, workerVars, attVars, fileVars,
    detVars, emlVars, raceVars, webVars>>

nonWorkerVars == <<pdfCallVars, splitVars, msgVars, cleanVars, attVars, fileVars,
    detVars, emlVars, raceVars, webVars>>

nonAttVars == <<splitVars, msgVars, cleanVars, workerVars, fileVars,
    detVars, emlVars, raceVars, webVars>>

\* all but the variables of the file, of the PDF and of the message file
nonFileVars == <<splitVars, cleanVars, workerVars, attVars,
    detVars, emlVars, raceVars, webVars>>

nonDetVars == <<splitVars, pdfVars, msgVars, cleanVars, workerVars, attVars,
               fileVars, emlVars, raceVars, webVars>>

nonEmlVars == <<splitVars, pdfVars, msgVars, cleanVars, workerVars, attVars,
               fileVars, detVars, raceVars, webVars>>

nonWebVars == <<splitVars, pdfVars, msgVars, cleanVars, workerVars, attVars,
               fileVars, detVars, emlVars, raceVars>>

vars == <<splitVars, pdfVars, msgVars, cleanVars, workerVars, attVars, fileVars,
    detVars, emlVars, raceVars, webVars>>

(***************************************************************************)
(* Strings                                                                 *)
(***************************************************************************)
NL == "\n"

\* the whitespace str.strip() and the pattern class \s remove, as far as the
\* model's alphabet has it
Whitespace == {" ", "\n", "\t", "\r", "h: \n", "h: \t"}

IsSpace(c) == c \in Whitespace

Digits == {"0", "1", "2", "3", "4", "5", "6", "7", "8", "9"}

UpperCase == <<"A","B","C","D","E","F","G","H","I","J","K","L","M",
               "N","O","P","Q","R","S","T","U","V","W","X","Y","Z">>

LowerCase == <<"a","b","c","d","e","f","g","h","i","j","k","l","m",
               "n","o","p","q","r","s","t","u","v","w","x","y","z">>

UpperSet == {UpperCase[i] : i \in 1..Len(UpperCase)}

LowerSet == {LowerCase[i] : i \in 1..Len(LowerCase)}

\* str.lower() on the upper-case letters
UpperToLower == [c \in UpperSet |->
                    LowerCase[CHOOSE i \in 1..Len(UpperCase) : UpperCase[i] = c]]

IsUpper(c) == c \in UpperSet

\* the characters outside ASCII for which str.isalpha() holds
OtherAlpha ==
    {"l:xD0", "l:xCF", "l:xE0", "l:xE1", "l:xFF",
     "u:xD0xA1", "u:xD0xB1", "u:xCFxA1", "u:xCFxB1",
     "u:xE0xA1xA1", "u:xE0xA1xB1", "u:xE0xB1xA1",
     "u:xE1xA1xA1", "u:xE1xA1xB1", "u:xE1xB1xA1", "u:xE1xB1xB1",
     "h:\n ", "h:\r ", "h:\n\n", "h:\r\n"}

\* str.isalpha() on one character
IsAlpha(c) ==
    \/ c \in UpperSet
    \/ c \in LowerSet
    \/ c \in OtherAlpha

\* str.lower() on one character
lower_char(c) == IF IsUpper(c) THEN UpperToLower[c] ELSE c

\* str.lower()
str_lower(s) == [i \in 1..Len(s) |-> lower_char(s[i])]

SetMin(S) == CHOOSE x \in S : \A y \in S : x <= y

\* the largest element, as the smallest of the negated ones
SetMax(S) == 0 - SetMin({0 - x : x \in S})

\* "" stands for a position that gives no character
IsKept(c) == c # ""

\* str.strip()
str_strip(s) ==
    LET keep == {i \in 1..Len(s) : ~IsSpace(s[i])}
    IN  IF keep = {} THEN <<>> ELSE SubSeq(s, SetMin(keep), SetMax(keep))

\* the literal p stands in s at position i
LiteralAt(s, i, p) ==
    /\ i >= 1
    /\ i + Len(p) - 1 <= Len(s)
    /\ \A k \in 1..Len(p) : s[i + k - 1] = p[k]

\* str.startswith
str_startswith(s, p) == LiteralAt(s, 1, p)

\* the Python test `p in s`
str_contains(s, p) == \E i \in 1..Len(s) : LiteralAt(s, i, p)

\* str.split("\n")
RECURSIVE str_split_lines(_)
str_split_lines(s) ==
    LET nls == {i \in 1..Len(s) : s[i] = NL}
    IN  IF nls = {}
        THEN <<s>>
        ELSE LET k == SetMin(nls)
             IN  <<SubSeq(s, 1, k - 1)>> \o str_split_lines(SubSeq(s, k + 1, Len(s)))

\* "\n".join(lines)
RECURSIVE str_join_lines(_)
str_join_lines(lines) ==
    IF lines = <<>> THEN <<>>
    ELSE IF Len(lines) = 1 THEN lines[1]
    ELSE lines[1] \o <<NL>> \o str_join_lines(Tail(lines))

\* the last index of the line of s that holds position i ("." matches no "\n")
LineEnd(s, i) ==
    LET nls == {j \in i..Len(s) : s[j] = NL}
    IN  IF nls = {} THEN Len(s) ELSE SetMin(nls) - 1

(***************************************************************************)
(* TextCleaner.clean_email_text                                            *)
(***************************************************************************)
\* a position of s that re.sub(r"\n\s*\n", "\n\n", s) leaves out: it stands in
\* a run of whitespace between two newlines of the run
InBlankLines(s, j) ==
    /\ IsSpace(s[j])
    /\ \E p \in 1..(j - 1) :
          /\ s[p] = NL
          /\ \A q \in p..j : IsSpace(s[q])
    /\ \E p \in (j + 1)..Len(s) :
          /\ s[p] = NL
          /\ \A q \in j..p : IsSpace(s[q])

\* re.sub(r"\n\s*\n", "\n\n", s): a match runs from the first newline of a run
\* of whitespace to the last one, and these two newlines are what is left of it
collapse_blank_lines(s) ==
    SelectSeq([j \in 1..Len(s) |-> IF InBlankLines(s, j) THEN "" ELSE s[j]], IsKept)

PAGE_PREFIX == <<"P","a","g","e"," ">>

\* re.match(r"^\d+$", line)
IsDigitLine(line) == line # <<>> /\ \A i \in 1..Len(line) : line[i] \in Digits

\* the condition under which a stripped line is kept
clean_keeps_line(line) ==
    /\ line # <<>>
    /\ ~IsDigitLine(line)
    /\ ~str_startswith(line, PAGE_PREFIX)
    /\ Len(line) > 3

clean_email_text(txt) ==
    LET lines    == str_split_lines(collapse_blank_lines(txt))
        stripped == [i \in 1..Len(lines) |-> str_strip(lines[i])]
    IN  str_join_lines(SelectSeq(stripped, clean_keeps_line))

(***************************************************************************)
(* EmailParser.extract_email_info                                          *)
(***************************************************************************)
NOT_FOUND == <<"N","o","t"," ","f","o","u","n","d">>

L_subject  == <<"s","u","b","j","e","c","t",":">>
L_from     == <<"f","r","o","m",":">>
L_to       == <<"t","o",":">>
L_date     == <<"d","a","t","e",":">>
L_sent     == <<"s","e","n","t",":">>
L_received == <<"r","e","c","e","i","v","e","d",":">>

\* line.split(":", 1)[1].strip()
after_colon(line) ==
    LET k == SetMin({i \in 1..Len(line) : line[i] = ":"})
    IN  str_strip(SubSeq(line, k + 1, Len(line)))

\* one iteration of the loop over the lines: the if/elif chain
extract_line(info, line) ==
    LET ll == str_lower(line)
    IN  IF str_contains(ll, L_subject) THEN [info EXCEPT !.subject = after_colon(line)]
        ELSE IF str_contains(ll, L_from) THEN [info EXCEPT !.from = after_colon(line)]
        ELSE IF str_contains(ll, L_to) THEN [info EXCEPT !.to = after_colon(line)]
        ELSE IF \/ str_contains(ll, L_date)
                \/ str_contains(ll, L_sent)
                \/ str_contains(ll, L_received)
             THEN [info EXCEPT !.date = after_colon(line)]
        ELSE info

RECURSIVE extract_lines(_, _, _)
extract_lines(info, lines, i) ==
    IF i > Len(lines) THEN info
    ELSE extract_lines(extract_line(info, lines[i]), lines, i + 1)

extract_email_info(txt) ==
    extract_lines([subject |-> NOT_FOUND, from |-> NOT_FOUND, to |-> NOT_FOUND,
                   date |-> NOT_FOUND, content |-> txt],
                  str_split_lines(txt), 1)

(***************************************************************************)
(* EmailParser.split_email_threads                                         *)
(***************************************************************************)
\* the separators, lower-cased: every use is with re.IGNORECASE
ORIGINAL_MESSAGE == <<"-","-","-","-","-","o","r","i","g","i","n","a","l"," ",
                      "m","e","s","s","a","g","e","-","-","-","-","-">>

DIVIDER == <<"_","_","_","_","_","_","_","_","_","_","_","_","_","_","_","_",
             "_","_","_","_","_","_","_","_","_","_","_","_","_","_","_","_">>

FORWARDED == <<"b","e","g","i","n"," ","f","o","r","w","a","r","d","e","d"," ",
               "m","e","s","s","a","g","e",":">>

L_on    == <<"o","n"," ">>
L_wrote == <<" ","w","r","o","t","e",":">>

Separators == 1..5

\* the length of the match of separator k that starts at position i of s
\* (ls is s lower-cased), or 0 when it does not match there
SeparatorMatchLen(k, ls, i) ==
    CASE k = 1 ->   \* From:.*?@.*
            IF /\ LiteralAt(ls, i, L_from)
               /\ \E j \in (i + Len(L_from))..LineEnd(ls, i) : ls[j] = "@"
            THEN LineEnd(ls, i) - i + 1
            ELSE 0
      [] k = 2 -> IF LiteralAt(ls, i, ORIGINAL_MESSAGE) THEN Len(ORIGINAL_MESSAGE) ELSE 0
      [] k = 3 -> IF LiteralAt(ls, i, DIVIDER) THEN Len(DIVIDER) ELSE 0
      [] k = 4 ->   \* On .* wrote:
            LET ends == {j \in (i + Len(L_on))..(LineEnd(ls, i) - Len(L_wrote) + 1) :
                            LiteralAt(ls, j, L_wrote)}
            IN  IF LiteralAt(ls, i, L_on) /\ ends # {}
                THEN SetMax(ends) + Len(L_wrote) - i
                ELSE 0
      [] k = 5 -> IF LiteralAt(ls, i, FORWARDED) THEN Len(FORWARDED) ELSE 0

\* re.search from position `from`: the leftmost position a match starts at, or 0
SeparatorSearch(k, ls, from) ==
    LET hits == {i \in from..Len(ls) : SeparatorMatchLen(k, ls, i) > 0}
    IN  IF hits = {} THEN 0 ELSE SetMin(hits)

\* re.split(separator, s, flags=re.IGNORECASE)
RECURSIVE re_split_from(_, _, _, _)
re_split_from(k, s, ls, pos) ==
    LET i == SeparatorSearch(k, ls, pos)
    IN  IF i = 0
        THEN <<SubSeq(s, pos, Len(s))>>
        ELSE <<SubSeq(s, pos, i - 1)>>
                 \o re_split_from(k, s, ls, i + SeparatorMatchLen(k, ls, i))

re_split(k, s) == re_split_from(k, s, str_lower(s), 1)

\* re.search(separator, current_email, re.IGNORECASE).group(0): the text of the
\* first match in the whole text
re_search_group0(k, s) ==
    LET ls == str_lower(s)
        i  == SeparatorSearch(k, ls, 1)
    IN  IF i = 0 THEN <<>> ELSE SubSeq(s, i, i + SeparatorMatchLen(k, ls, i) - 1)

\* "Add separator back to maintain context", with the separator dropped
segment_text_dropped(i, part, sep_match) == part

\* "Add separator back to maintain context": every part but the first is
\* prefixed with match.group(0)
segment_text(i, part, sep_match) ==
    IF i > 1 THEN sep_match \o part ELSE part

\* the last separator whose split gives more than one part, or 0
winning_separator_last(txt) ==
    LET split == {k \in Separators : Len(re_split(k, txt)) > 1}
    IN  IF split = {} THEN 0 ELSE SetMax(split)

\* the first separator whose split gives more than one part, or 0
winning_separator(txt) ==
    LET split == {k \in Separators : Len(re_split(k, txt)) > 1}
    IN  IF split = {} THEN 0 ELSE SetMin(split)

\* the records of the parts from index i on; a blank part gives none
RECURSIVE thread_records(_, _, _)
thread_records(parts, sep_match, i) ==
    IF i > Len(parts) THEN <<>>
    ELSE (IF str_strip(parts[i]) # <<>>
          THEN <<extract_email_info(str_strip(segment_text(i, parts[i], sep_match)))>>
          ELSE <<>>)
         \o thread_records(parts, sep_match, i + 1)

split_email_threads(txt) ==
    LET k      == winning_separator(txt)
        emails == IF k = 0 THEN <<>>
                  ELSE thread_records(re_split(k, txt), re_search_group0(k, txt), 1)
    IN  IF emails = <<>> THEN <<extract_email_info(txt)>> ELSE emails

(***************************************************************************)
(* PDFTextExtractor: the inputs                                            *)
(***************************************************************************)
\* the most pages of a generated document, and the largest pool
MaxPages == 3

MaxWorkers == 2

DigitChars == <<"1", "2", "3", "4", "5", "6", "7", "8", "9">>

\* the text page i of a generated document holds, and what OCR reads on it
PageText(i) == <<"t","e","x","t">> \o <<DigitChars[i]>>

OcrText(i) == <<"s","c","a","n">> \o <<DigitChars[i]>>

\* a page: extract_text() returns its text, or raises when kind is "fail"
MakePage(kind, i) ==
    [kind |-> IF kind = "fail" THEN "fail" ELSE "text",
     text |-> IF kind = "text" THEN PageText(i) ELSE <<>>]

PageKinds == {"text", "blank", "fail"}

GeneratedDocs ==
    {[readable |-> TRUE, pages |-> [i \in DOMAIN kinds |-> MakePage(kinds[i], i)]] :
        kinds \in UNION {[1..n -> PageKinds] : n \in 1..MaxPages}}

\* a file PyPDF2 cannot read
UnreadableDoc == [readable |-> FALSE, pages |-> <<>>]

SCENARIO_A_TEXT ==
    <<"S","u","b","j","e","c","t",":"," ","H","i","\n",
      "F","r","o","m",":"," ","a","@","x",".","c","o","m","\n",
      "T","o",":"," ","b","@","x",".","c","o","m","\n",
      "B","o","d","y"," ","t","e","x","t">>

ScenarioA == [readable |-> TRUE,
              pages |-> <<[kind |-> "text", text |-> SCENARIO_A_TEXT]>>]

ScenarioBPages == 1..5

ScenarioBLine(i) ==
    <<"P","a","g","e"," ">> \o <<DigitChars[i]>> \o <<" ","c","o","n","t","e","n","t">>

ScenarioB == [readable |-> TRUE,
              pages |-> [i \in ScenarioBPages |->
                            [kind |-> "text", text |-> ScenarioBLine(i)]]]

Docs == GeneratedDocs \cup {UnreadableDoc, ScenarioA, ScenarioB}

HasText(d) == \E i \in 1..Len(d.pages) :
                 d.pages[i].kind = "text" /\ str_strip(d.pages[i].text) # <<>>

\* the number of images convert_from_path makes of the document
ImageCount(d) == IF d.readable THEN Len(d.pages) ELSE 2

\* what the OCR backend does: whether Tesseract and Poppler are set up, and per
\* image the text pytesseract reads, or "fail" when it raises
OcrBehaviours(d) ==
    {[setup_ok |-> ok,
      images   |-> [i \in 1..ImageCount(d) |->
                       [kind |-> IF i = bad THEN "fail" ELSE "text",
                        text |-> IF i = bad THEN <<>> ELSE OcrText(i)]]] :
        ok \in BOOLEAN, bad \in 0..ImageCount(d)}

OcrDefault(d) ==
    [setup_ok |-> TRUE,
     images   |-> [i \in 1..ImageCount(d) |-> [kind |-> "text", text |-> OcrText(i)]]]

(***************************************************************************)
(* PDFTextExtractor: the worker pool                                       *)
(***************************************************************************)
NoFuture == [raised |-> FALSE, value |-> <<>>]

\* _extract_single_page with a failure reported as text
extract_single_page_reports(page) ==
    [raised |-> FALSE,
     value  |-> IF page.kind = "fail"
                THEN <<"[","E","r","r","o","r","]">>
                ELSE page.text \o <<NL>>]

\* _extract_single_page: the outcome of the future of a page
extract_single_page(page) ==
    [raised |-> FALSE,
     value  |-> IF page.kind = "fail" THEN <<>> ELSE page.text \o <<NL>>]

\* _ocr_image: the outcome of the future of an image
ocr_image(image) ==
    [raised |-> image.kind = "fail", value |-> image.text]

Tasks == DOMAIN task

Running == {i \in Tasks : task[i] = "running"}

\* executor.submit for every page: the futures, queued in page order
Submit(n) ==
    /\ task' = [i \in 1..n |-> "queued"]
    /\ future' = [i \in 1..n |-> NoFuture]
    /\ yielded' = {}
    /\ yield_order' = <<>>

\* a worker of the pool takes the next queued task
StartTask(i) ==
    /\ task[i] = "queued"
    /\ \A j \in Tasks : j < i => task[j] # "queued"
    /\ Cardinality(Running) < max_workers
    /\ task' = [task EXCEPT ![i] = "running"]

(***************************************************************************)
(* PDFTextExtractor.extract_text_from_pdf                                  *)
(***************************************************************************)
\* lines 36-44: open the file; one page is extracted in place, more are
\* submitted to the pool
OpenPdf ==
    /\ pc = "open"
    /\ IF ~doc.readable
       THEN /\ pc' = "except"
            /\ UNCHANGED <<poolVars, page_texts, text>>
       ELSE IF Len(doc.pages) = 1
       THEN /\ IF doc.pages[1].kind = "fail"
               THEN pc' = "except" /\ UNCHANGED text
               ELSE pc' = "check" /\ text' = doc.pages[1].text
            /\ UNCHANGED <<poolVars, page_texts>>
       ELSE /\ Submit(Len(doc.pages))
            /\ page_texts' = [i \in 1..Len(doc.pages) |-> <<>>]
            /\ pc' = "pages"
            /\ UNCHANGED text
    /\ UNCHANGED <<pdfIn, ocr_site, parallel_ret, ocr_ret, ocr_calls, raw_text,
                   result, run, first_result, clean_text, nonPdfVars>>

StartPageTask(i) ==
    /\ pc = "pages"
    /\ StartTask(i)
    /\ UNCHANGED <<pdfIn, pc, ocr_site, future, yielded, yield_order, page_texts,
                   text, parallel_ret, ocr_ret, ocr_calls, raw_text, result, run,
                   first_result, clean_text, nonPdfVars>>

FinishPageTask(i) ==
    /\ pc = "pages"
    /\ task[i] = "running"
    /\ task' = [task EXCEPT ![i] = "done"]
    /\ future' = [future EXCEPT ![i] = extract_single_page(doc.pages[i])]
    /\ UNCHANGED <<pdfIn, pc, ocr_site, yielded, yield_order, page_texts, text,
                   parallel_ret, ocr_ret, ocr_calls, raw_text, result, run,
                   first_result, clean_text, nonPdfVars>>

\* the loop over as_completed with the results appended as they complete
CollectPageInCompletionOrder(i) ==
    /\ pc = "pages"
    /\ task[i] = "done"
    /\ i \notin yielded
    /\ yielded' = yielded \cup {i}
    /\ yield_order' = Append(yield_order, i)
    /\ page_texts' = [page_texts EXCEPT ![Len(yield_order) + 1] =
                         IF future[i].raised THEN <<>> ELSE future[i].value]
    /\ UNCHANGED <<pdfIn, pc, ocr_site, task, future, text, parallel_ret, ocr_ret,
                   ocr_calls, raw_text, result, run, first_result, clean_text, nonPdfVars>>

\* lines 78-86: as_completed yields a finished future, and its result goes to
\* the slot of its page
CollectPage(i) ==
    /\ pc = "pages"
    /\ task[i] = "done"
    /\ i \notin yielded
    /\ yielded' = yielded \cup {i}
    /\ yield_order' = Append(yield_order, i)
    /\ page_texts' = [page_texts EXCEPT ![i] =
                         IF future[i].raised THEN <<>> ELSE future[i].value]
    /\ UNCHANGED <<pdfIn, pc, ocr_site, task, future, text, parallel_ret, ocr_ret,
                   ocr_calls, raw_text, result, run, first_result, clean_text, nonPdfVars>>

\* line 88: every future was yielded, the pool is shut down and the page texts
\* are joined
JoinPages ==
    /\ pc = "pages"
    /\ yielded = Tasks
    /\ text' = str_join_lines(page_texts)
    /\ parallel_ret' = {str_join_lines(page_texts)}
    /\ pc' = "check"
    /\ UNCHANGED <<pdfIn, ocr_site, poolVars, page_texts, ocr_ret, ocr_calls,
                   raw_text, result, run, first_result, clean_text, nonPdfVars>>

\* lines 46-53: blank text goes to OCR when there is OCR, and is returned as ""
\* when there is none
CheckText ==
    /\ pc = "check"
    /\ IF str_strip(text) = <<>> /\ ocr_available
       THEN /\ pc' = "ocr_begin"
            /\ ocr_site' = "try"
            /\ UNCHANGED raw_text
       ELSE /\ raw_text' = str_strip(text)
            /\ pc' = "returned"
            /\ UNCHANGED ocr_site
    /\ UNCHANGED <<pdfIn, poolVars, page_texts, text, parallel_ret, ocr_ret,
                   ocr_calls, result, run, first_result, clean_text, nonPdfVars>>

\* lines 54-63: the handler of any exception of the try block
HandleError ==
    /\ pc = "except"
    /\ IF ocr_available
       THEN /\ pc' = "ocr_begin"
            /\ ocr_site' = "except"
            /\ UNCHANGED raw_text
       ELSE /\ raw_text' = <<>>
            /\ pc' = "returned"
            /\ UNCHANGED ocr_site
    /\ UNCHANGED <<pdfIn, poolVars, page_texts, text, parallel_ret, ocr_ret,
                   ocr_calls, result, run, first_result, clean_text, nonPdfVars>>

(***************************************************************************)
(* PDFTextExtractor._extract_text_with_ocr                                 *)
(***************************************************************************)
\* an exception leaves _extract_text_with_ocr: the call of line 49 is inside
\* the try block, the call of line 60 has a handler of its own
OcrRaises ==
    IF ocr_site = "try"
    THEN pc' = "except" /\ UNCHANGED raw_text
    ELSE pc' = "returned" /\ raw_text' = <<>>

\* lines 98-130: set up Tesseract, convert the pages to images, submit one
\* task per image
OcrBegin ==
    /\ pc = "ocr_begin"
    /\ ocr_calls' = ocr_calls + 1
    /\ IF ~ocr_available \/ ~ocr_in.setup_ok
       THEN /\ OcrRaises
            /\ UNCHANGED <<poolVars, text>>
       ELSE /\ Submit(Len(ocr_in.images))
            /\ text' = <<>>
            /\ pc' = "ocr"
            /\ UNCHANGED raw_text
    /\ UNCHANGED <<pdfIn, ocr_site, page_texts, parallel_ret, ocr_ret, result,
                   run, first_result, clean_text, nonPdfVars>>

StartOcrTask(i) ==
    /\ pc = "ocr"
    /\ StartTask(i)
    /\ UNCHANGED <<pdfIn, pc, ocr_site, future, yielded, yield_order, page_texts,
                   text, parallel_ret, ocr_ret, ocr_calls, raw_text, result, run,
                   first_result, clean_text, nonPdfVars>>

FinishOcrTask(i) ==
    /\ pc = "ocr"
    /\ task[i] = "running"
    /\ task' = [task EXCEPT ![i] = "done"]
    /\ future' = [future EXCEPT ![i] = ocr_image(ocr_in.images[i])]
    /\ UNCHANGED <<pdfIn, pc, ocr_site, yielded, yield_order, page_texts, text,
                   parallel_ret, ocr_ret, ocr_calls, raw_text, result, run,
                   first_result, clean_text, nonPdfVars>>

\* lines 133-139: as_completed yields a finished future, and its text is
\* appended to the text so far; a future that raised adds nothing
CollectOcr(i) ==
    /\ pc = "ocr"
    /\ task[i] = "done"
    /\ i \notin yielded
    /\ yielded' = yielded \cup {i}
    /\ yield_order' = Append(yield_order, i)
    /\ text' = IF future[i].raised THEN text ELSE text \o future[i].value \o <<NL>>
    /\ UNCHANGED <<pdfIn, pc, ocr_site, task, future, page_texts, parallel_ret,
                   ocr_ret, ocr_calls, raw_text, result, run, first_result,
                   clean_text, nonPdfVars>>

\* line 141, and the return of the caller: line 53 strips once more, line 60
\* returns the text as it is
JoinOcr ==
    /\ pc = "ocr"
    /\ yielded = Tasks
    /\ ocr_ret' = {str_strip(text)}
    /\ text' = str_strip(text)
    /\ raw_text' = IF ocr_site = "try" THEN str_strip(str_strip(text)) ELSE str_strip(text)
    /\ pc' = "returned"
    /\ UNCHANGED <<pdfIn, ocr_site, poolVars, page_texts, parallel_ret, ocr_calls,
                   result, run, first_result, clean_text, nonPdfVars>>

(***************************************************************************)
(* PDFEmailSummarizer._process_pdf_file                                    *)
(***************************************************************************)
\* lines 82-95: the message of the error record
IMAGE_BASED_PDF ==
    <<"C","o","u","l","d"," ","n","o","t"," ","e","x","t","r","a","c","t"," ",
      "t","e","x","t"," ","f","r","o","m"," ","P","D","F","."," ","T","h","i",
      "s"," ","a","p","p","e","a","r","s"," ","t","o"," ","b","e"," ","a","n",
      " ","i","m","a","g","e","-","b","a","s","e","d"," ","P","D","F"," ","(",
      "s","c","a","n","n","e","d"," ","d","o","c","u","m","e","n","t",")",".",
      " ","T","o"," ","p","r","o","c","e","s","s"," ","t","h","i","s"," ","t",
      "y","p","e"," ","o","f"," ","P","D","F",","," ","y","o","u"," ","w","o",
      "u","l","d"," ","n","e","e","d"," ","t","o",":","\n","\n","1","."," ",
      "I","n","s","t","a","l","l"," ","T","e","s","s","e","r","a","c","t"," ",
      "O","C","R",":"," ","h","t","t","p","s",":","/","/","g","i","t","h","u",
      "b",".","c","o","m","/","U","B","-","M","a","n","n","h","e","i","m","/",
      "t","e","s","s","e","r","a","c","t","/","w","i","k","i","\n","2",".",
      " ","I","n","s","t","a","l","l"," ","P","o","p","p","l","e","r",":"," ",
      "D","o","w","n","l","o","a","d"," ","f","r","o","m"," ","h","t","t","p",
      "s",":","/","/","g","i","t","h","u","b",".","c","o","m","/","o","s","c",
      "h","w","a","r","t","z","1","0","6","1","2","/","p","o","p","p","l","e",
      "r","-","w","i","n","d","o","w","s","/","r","e","l","e","a","s","e","s",
      "/","\n","3","."," ","A","d","d"," ","b","o","t","h"," ","t","o"," ",
      "y","o","u","r"," ","s","y","s","t","e","m"," ","P","A","T","H","\n",
      "\n","A","l","t","e","r","n","a","t","i","v","e","l","y",","," ","t",
      "r","y"," ","c","o","n","v","e","r","t","i","n","g"," ","y","o","u","r",
      " ","P","D","F"," ","t","o"," ","a"," ","t","e","x","t","-","b","a","s",
      "e","d"," ","P","D","F"," ","u","s","i","n","g"," ","o","n","l","i","n",
      "e"," ","t","o","o","l","s"," ","o","r"," ","s","a","v","e"," ","y","o",
      "u","r"," ","e","m","a","i","l","s"," ","a","s"," ","t","e","x","t"," ",
      "i","n","s","t","e","a","d"," ","o","f"," ","s","c","a","n","n","i","n",
      "g"," ","t","h","e","m",".">>

ErrorResult(message) == [success |-> FALSE, error |-> message, emails |-> <<>>]

\* _generate_summary, lines 180-187: the success record
SuccessResult(emails) == [success |-> TRUE, error |-> <<>>, emails |-> emails]

\* lines 97-105 without the test of line 80
process_pdf_text_unchecked(raw) ==
    SuccessResult(split_email_threads(clean_email_text(raw)))

\* lines 80-105: no text is an error record, any text is cleaned, split into
\* email records and summarised
process_pdf_text(raw) ==
    IF raw = <<>>
    THEN ErrorResult(IMAGE_BASED_PDF)
    ELSE SuccessResult(split_email_threads(clean_email_text(raw)))

ProcessText ==
    /\ pc = "returned"
    /\ clean_text' = IF raw_text = <<>> THEN <<>> ELSE clean_email_text(raw_text)
    /\ result' = process_pdf_text(raw_text)
    /\ pc' = "done"
    /\ UNCHANGED <<pdfIn, ocr_site, poolVars, page_texts, text, parallel_ret,
                   ocr_ret, ocr_calls, raw_text, run, first_result, nonPdfVars>>

\* the locals of a call of _process_pdf_file that has not started
NoCall ==
    /\ ocr_site = "none"
    /\ task = <<>>
    /\ future = <<>>
    /\ yielded = {}
    /\ yield_order = <<>>
    /\ page_texts = <<>>
    /\ text = <<>>
    /\ parallel_ret = {}
    /\ ocr_ret = {}
    /\ ocr_calls = 0
    /\ raw_text = <<>>
    /\ clean_text = <<>>
    /\ result = ErrorResult(<<>>)

\* the state in which a call of _process_pdf_file starts
StartOfCall == pc = "open" /\ NoCall

\* OCR is reached only with a backend, and only from a document without text
\* or from an exception
MayReachOcr(d) == ~d.readable \/ ~HasText(d)

\* a PDF from the set ds, an extractor and an OCR backend
PdfInputs(ds) ==
    /\ doc \in ds
    /\ ocr_available \in BOOLEAN
    /\ max_workers \in 1..MaxWorkers
    /\ ocr_in \in IF ocr_available /\ MayReachOcr(doc)
                  THEN OcrBehaviours(doc)
                  ELSE {OcrDefault(doc)}

InitPdf ==
    /\ PdfInputs(Docs)
    /\ StartOfCall
    /\ run = 1
    /\ first_result = {}

\* no call of _process_pdf_file is made
PdfCallIdle ==
    /\ doc = UnreadableDoc
    /\ ocr_available = FALSE
    /\ ocr_in = OcrDefault(UnreadableDoc)
    /\ NoCall
    /\ pc = "off"
    /\ run = 1
    /\ first_result = {}

PdfIdle == PdfCallIdle /\ max_workers = 1

(***************************************************************************)
(* PDFTextExtractor: the worker count                                      *)
(***************************************************************************)
\* the hard ceiling of lines 21 and 213
HARD_CEILING == 8

\* the largest hardware-concurrency hint, and the largest count configured
MaxCpu == 10

MaxConfigured == 10

Min2(a, b) == IF a <= b THEN a ELSE b

\* line 21: min(max_workers or multiprocessing.cpu_count(), 8); None and 0
\* are false
init_max_workers(given, cpus) ==
    IF given = {} \/ given = {0}
    THEN Min2(cpus, HARD_CEILING)
    ELSE Min2(CHOOSE n \in given : TRUE, HARD_CEILING)

\* line 213: min(max_workers, 8)
set_max_workers(n) == Min2(n, HARD_CEILING)

\* PDFTextExtractor.__init__
Construct ==
    /\ workers_pc = "new"
    /\ max_workers' = init_max_workers(configured, cpu_count)
    /\ workers_pc' = "ready"
    /\ UNCHANGED <<cpu_count, configured, pool_size, nonWorkerVars>>

\* PDFTextExtractor.set_max_workers, called between extractions: the pool of
\* the last extraction is gone
SetMaxWorkers(n) ==
    /\ workers_pc = "ready"
    /\ max_workers' = set_max_workers(n)
    /\ configured' = {n}
    /\ pool_size' = {}
    /\ UNCHANGED <<cpu_count, workers_pc, nonWorkerVars>>

\* line 69: the pool of a multi-page extraction is opened with
\* self.max_workers; ThreadPoolExecutor raises for a count of 0 or less
OpenPool ==
    /\ workers_pc = "ready"
    /\ pool_size' = IF max_workers > 0 THEN {max_workers} ELSE {}
    /\ UNCHANGED <<cpu_count, configured, workers_pc, max_workers,
                   nonWorkerVars>>

InitWorkers ==
    /\ cpu_count \in 1..MaxCpu
    /\ configured \in {{}} \cup {{n} : n \in 0..MaxConfigured}
    /\ workers_pc = "new"
    /\ max_workers = 0
    /\ pool_size = {}

WorkersIdle ==
    /\ cpu_count = 1
    /\ configured = {}
    /\ workers_pc = "off"
    /\ pool_size = {}

(***************************************************************************)
(* split_email_threads on bounded texts                                    *)
(***************************************************************************)
\* the pieces the input texts are built from
MARKER == <<"-","-","-","-","-","O","r","i","g","i","n","a","l"," ",
            "M","e","s","s","a","g","e","-","-","-","-","-">>

FROM_LINE == <<"F","r","o","m",":"," ","a","@","x",".","c","o","m">>

WROTE_LINE == <<"O","n"," ","M","o","n"," ","w","r","o","t","e",":">>

FROM2_LINE == <<"F","r","o","m",":"," ","b","@","y",".","o","r","g">>

\* the sender-header line of a second sender, on a line of its own
SECOND_SENDER == <<NL>> \o FROM2_LINE \o <<NL>>

FORWARDED_LINE == <<"B","e","g","i","n"," ","f","o","r","w","a","r","d","e","d"," ",
                    "m","e","s","s","a","g","e",":">>

Chunk(name) ==
    CASE name = "a"      -> <<"a">>
      [] name = "sp"     -> <<" ">>
      [] name = "nl"     -> <<NL>>
      [] name = "marker" -> MARKER
      [] name = "from"   -> FROM_LINE
      [] name = "wrote"  -> WROTE_LINE
      [] name = "from2"  -> SECOND_SENDER
      [] name = "div"    -> DIVIDER
      [] name = "fwd"    -> FORWARDED_LINE

ChunkNames == {"a", "sp", "nl", "marker", "from", "wrote", "from2", "div", "fwd"}

\* the longest input, in chunks
MaxChunks == 3

RECURSIVE Flatten(_)
Flatten(cs) == IF cs = <<>> THEN <<>> ELSE Chunk(cs[1]) \o Flatten(Tail(cs))

SplitInputs == UNION {[1..n -> ChunkNames] : n \in 0..MaxChunks}

SplitIdle ==
    /\ chunks_in = <<>>
    /\ split_pc = "off"
    /\ emails_out = <<>>

(***************************************************************************)
(* clean_email_text on bounded texts                                       *)
(***************************************************************************)
\* the pieces the input texts are built from: digits, the start of a page
\* marker, a two-character word, a ten-character content line, white space
CleanChunk(name) ==
    CASE name = "42"      -> <<"4","2">>
      [] name = "page"    -> PAGE_PREFIX
      [] name = "3"       -> <<"3">>
      [] name = "ab"      -> <<"a","b">>
      [] name = "content" -> <<"c","o","n","t","e","n","t"," ","o","k">>
      [] name = "sp"      -> <<" ">>
      [] name = "nl"      -> <<NL>>

CleanChunkNames == {"42", "page", "3", "ab", "content", "sp", "nl"}

\* the longest input, in chunks
MaxCleanChunks == 4

RECURSIVE FlattenClean(_)
FlattenClean(cs) ==
    IF cs = <<>> THEN <<>> ELSE CleanChunk(cs[1]) \o FlattenClean(Tail(cs))

CleanInputs == UNION {[1..n -> CleanChunkNames] : n \in 0..MaxCleanChunks}

InitClean ==
    /\ clean_in \in CleanInputs
    /\ clean_pc = "ready"
    /\ clean_out = <<>>

CleanIdle ==
    /\ clean_in = <<>>
    /\ clean_pc = "off"
    /\ clean_out = <<>>

\* a call of TextCleaner.clean_email_text
CleanText ==
    /\ clean_pc = "ready"
    /\ clean_out' = clean_email_text(FlattenClean(clean_in))
    /\ clean_pc' = "done"
    /\ UNCHANGED <<clean_in, nonCleanVars>>

(***************************************************************************)
(* NativeMsgParser: bytes and their decodings                              *)
(*                                                                         *)
(* A byte below 0x80 is written as the character it encodes ("x00", "x11"  *)
(* and "x1A" for the control bytes), a byte from 0x80 on as "xHH".  A      *)
(* decoded character outside ASCII is written with the bytes it came from: *)
(* "u:.." from UTF-8, "l:.." from Latin-1, "h:.." from UTF-16.             *)
(***************************************************************************)
MSG_SIGNATURE == <<"xD0", "xCF", "x11", "xE0", "xA1", "xB1", "x1A", "xE1">>

\* stream.read(8)
SIGNATURE_SIZE == 8

\* stream.read(512)
HEADER_SIZE == 512

HighBytes == {"xD0", "xCF", "xE0", "xA1", "xB1", "xE1", "xFF"}

\* the bytes 0x80..0xBF, the lead bytes of a two-byte sequence and of a
\* three-byte sequence
Continuation == {"xA1", "xB1"}

Lead2 == {"xD0", "xCF"}

Lead3 == {"xE0", "xE1"}

\* the length of the well-formed UTF-8 sequence that starts at b[i], or 0
Utf8SeqLen(b, i) ==
    IF b[i] \notin HighBytes THEN 1
    ELSE IF b[i] \in Lead2 /\ i + 1 <= Len(b) /\ b[i + 1] \in Continuation THEN 2
    ELSE IF /\ b[i] \in Lead3
            /\ i + 2 <= Len(b)
            /\ b[i + 1] \in Continuation
            /\ b[i + 2] \in Continuation
         THEN 3
    ELSE 0

\* the character of the sequence that starts at b[i]; "" for a byte that
\* errors="ignore" drops
Utf8Char(b, i) ==
    CASE Utf8SeqLen(b, i) = 0 -> ""
      [] Utf8SeqLen(b, i) = 1 -> b[i]
      [] Utf8SeqLen(b, i) = 2 -> "u:" \o b[i] \o b[i + 1]
      [] Utf8SeqLen(b, i) = 3 -> "u:" \o b[i] \o b[i + 1] \o b[i + 2]

\* content.decode("utf-8", errors="ignore"): a lead byte is never the
\* continuation of an earlier sequence, so every position decodes on its own
decode_utf8(b) == SelectSeq([i \in 1..Len(b) |-> Utf8Char(b, i)], IsKept)

\* content.decode("latin-1", errors="ignore"): every byte is a character
decode_latin1(b) ==
    [i \in 1..Len(b) |-> IF b[i] \in HighBytes THEN "l:" \o b[i] ELSE b[i]]

\* content.decode("cp1252", errors="ignore"): as Latin-1 for ASCII and for the
\* bytes from 0xA0 on
decode_cp1252(b) == decode_latin1(b)

\* content.decode("utf-16", errors="ignore") of a buffer without byte order
\* mark: little-endian code units, an odd last byte is dropped
decode_utf16(b) == [k \in 1..(Len(b) \div 2) |-> "h:" \o b[2 * k] \o b[2 * k - 1]]

Encodings == <<"utf-8", "latin-1", "cp1252", "utf-16">>

decode(b, encoding) ==
    CASE encoding = "utf-8"   -> decode_utf8(b)
      [] encoding = "latin-1" -> decode_latin1(b)
      [] encoding = "cp1252"  -> decode_cp1252(b)
      [] encoding = "utf-16"  -> decode_utf16(b)

(***************************************************************************)
(* NativeMsgParser._extract_text_patterns                                  *)
(***************************************************************************)
CRLF == {"\r", "\n"}

\* the last index of the run [^\r\n]+ that starts at index g
RunEnd(s, g) ==
    LET stops == {j \in g..Len(s) : s[j] \in CRLF}
    IN  IF stops = {} THEN Len(s) ELSE SetMin(stops) - 1

\* the length of the run of characters of class from index p on
ClassRun(s, p, class) ==
    LET stops == {j \in p..Len(s) : s[j] \notin class}
    IN  (IF stops = {} THEN Len(s) + 1 ELSE SetMin(stops)) - p

NoMatch == [found |-> FALSE, group1 |-> <<>>]

Match(s, first, last) == [found |-> TRUE, group1 |-> SubSeq(s, first, last)]

\* where group 1 of  label\s*([^\r\n]+)  starts when the pattern is matched
\* at index i, or 0: \s* is greedy and gives back until a character that is
\* no line break follows
LabelGroupStart(s, ls, i, label) ==
    IF ~LiteralAt(ls, i, label) THEN 0
    ELSE LET p  == i + Len(label)
             ks == {k \in 0..ClassRun(s, p, Whitespace) :
                        p + k <= Len(s) /\ s[p + k] \notin CRLF}
         IN  IF ks = {} THEN 0 ELSE p + SetMax(ks)

\* re.search(r"label\s*([^\r\n]+)", s, re.IGNORECASE) for the labels given;
\* ls is s in lower case
LabelSearch(s, ls, labels) ==
    LET hits == {i \in 1..Len(s) : \E l \in labels : LabelGroupStart(s, ls, i, l) > 0}
    IN  IF hits = {} THEN NoMatch
        ELSE LET i == SetMin(hits)
                 l == CHOOSE l \in labels : LabelGroupStart(s, ls, i, l) > 0
                 g == LabelGroupStart(s, ls, i, l)
             IN  Match(s, g, RunEnd(s, g))

P_subject_colon == <<"s","u","b","j","e","c","t",":">>
P_subject       == <<"s","u","b","j","e","c","t">>
P_from          == <<"f","r","o","m",":">>
P_sender        == <<"s","e","n","d","e","r",":">>
P_to            == <<"t","o",":">>
P_recipient     == <<"r","e","c","i","p","i","e","n","t",":">>
P_recipients    == <<"r","e","c","i","p","i","e","n","t","s",":">>

\* group 1 of  Subject:\s*(.+?)[\r\n]  matched at index i, as <<first, last>>,
\* or <<>>: \s* is greedy, (.+?) is the shortest run without "\n" that a line
\* break follows
SubjectLazyAt(s, ls, i) ==
    IF ~LiteralAt(ls, i, P_subject_colon) THEN <<>>
    ELSE LET p  == i + Len(P_subject_colon)
             ks == {k \in 0..ClassRun(s, p, Whitespace) :
                        /\ p + k <= Len(s)
                        /\ s[p + k] # "\n"
                        /\ \E t \in (p + k + 1)..Len(s) : s[t] \in CRLF}
         IN  IF ks = {} THEN <<>>
             ELSE LET g == p + SetMax(ks)
                  IN  <<g, SetMin({t \in (g + 1)..Len(s) : s[t] \in CRLF}) - 1>>

\* re.search(r"Subject:\s*(.+?)[\r\n]", s, re.IGNORECASE)
SubjectLazySearch(s, ls) ==
    LET hits == {i \in 1..Len(s) : SubjectLazyAt(s, ls, i) # <<>>}
    IN  IF hits = {} THEN NoMatch
        ELSE LET m == SubjectLazyAt(s, ls, SetMin(hits)) IN Match(s, m[1], m[2])

\* where group 1 of  Subject[:\s]+([^\r\n]+)  starts when matched at i, or 0
SubjectLooseStart(s, ls, i) ==
    IF ~LiteralAt(ls, i, P_subject) THEN 0
    ELSE LET p  == i + Len(P_subject)
             ks == {k \in 1..ClassRun(s, p, Whitespace \cup {":"}) :
                        p + k <= Len(s) /\ s[p + k] \notin CRLF}
         IN  IF ks = {} THEN 0 ELSE p + SetMax(ks)

\* re.search(r"Subject[:\s]+([^\r\n]+)", s, re.IGNORECASE)
SubjectLooseSearch(s, ls) ==
    LET hits == {i \in 1..Len(s) : SubjectLooseStart(s, ls, i) > 0}
    IN  IF hits = {} THEN NoMatch
        ELSE LET g == SubjectLooseStart(s, ls, SetMin(hits))
             IN  Match(s, g, RunEnd(s, g))

\* the index of the first character c of s after index i, or 0
NextChar(s, i, c) ==
    LET at == {j \in (i + 1)..Len(s) : s[j] = c}
    IN  IF at = {} THEN 0 ELSE SetMin(at)

\* <([^@]+@[^>]+)> matched at index i: the index of the closing ">", or 0
AngleClose(s, i) ==
    IF s[i] # "<" THEN 0
    ELSE LET a == NextChar(s, i, "@")
         IN  IF a < i + 2 THEN 0
             ELSE LET b == NextChar(s, a, ">")
                  IN  IF b < a + 2 THEN 0 ELSE b

\* re.search(r"<([^@]+@[^>]+)>", s, re.IGNORECASE)
AngleSearch(s) ==
    LET hits == {i \in 1..Len(s) : AngleClose(s, i) > 0}
    IN  IF hits = {} THEN NoMatch
        ELSE LET i == SetMin(hits) IN Match(s, i + 1, AngleClose(s, i) - 1)

\* the first pattern of the list that matches
FirstMatch(matches) ==
    LET found == {k \in 1..Len(matches) : matches[k].found}
    IN  IF found = {} THEN NoMatch ELSE matches[SetMin(found)]

EmptyDict == [k \in {} |-> <<>>]

\* dict.get(key, default)
dict_get(d, key, default) == IF key \in DOMAIN d THEN d[key] ELSE default

\* lines 143-154
subject_entry(s, ls) ==
    LET m == FirstMatch(<<SubjectLazySearch(s, ls), SubjectLooseSearch(s, ls)>>)
    IN  IF m.found THEN "subject" :> str_strip(m.group1) ELSE EmptyDict

\* lines 157-171
sender_entry(s, ls) ==
    LET m == FirstMatch(<<LabelSearch(s, ls, {P_from}), LabelSearch(s, ls, {P_sender}),
                          AngleSearch(s)>>)
        sender_info == str_strip(m.group1)
    IN  IF ~m.found THEN EmptyDict
        ELSE IF \E i \in 1..Len(sender_info) : sender_info[i] = "@"
        THEN "sender_email" :> sender_info
        ELSE "sender_name" :> sender_info

\* lines 174-183
to_entry(s, ls) ==
    LET m == FirstMatch(<<LabelSearch(s, ls, {P_to}),
                          LabelSearch(s, ls, {P_recipient, P_recipients})>>)
    IN  IF m.found THEN "display_to" :> str_strip(m.group1) ELSE EmptyDict

HEADER_PREFIXES ==
    {<<"F","r","o","m",":">>, <<"T","o",":">>,
     <<"S","u","b","j","e","c","t",":">>, <<"D","a","t","e",":">>,
     <<"M","e","s","s","a","g","e","-","I","D",":">>}

HexChars == {"A", "B", "C", "D", "E", "F"} \cup Digits

\* re.match(r"^[A-F0-9\s]+$", line)
IsHexDumpLine(line) ==
    line # <<>> /\ \A i \in 1..Len(line) : line[i] \in HexChars \cup Whitespace

\* len([c for c in line if c.isalpha()])
CountAlpha(line) == Cardinality({i \in 1..Len(line) : IsAlpha(line[i])})

BODY_LINE_MIN == 20

BODY_LINES_CAP == 50

\* lines 193-200: the test of a stripped line for body text
is_body_line(line) ==
    /\ Len(line) > BODY_LINE_MIN
    /\ ~\E p \in HEADER_PREFIXES : str_startswith(line, p)
    /\ ~IsHexDumpLine(line)
    /\ 2 * CountAlpha(line) > Len(line)

\* s[:n]
Take(s, n) == SubSeq(s, 1, IF Len(s) < n THEN Len(s) ELSE n)

StrippedLines(s) ==
    LET lines == str_split_lines(s)
    IN  [i \in 1..Len(lines) |-> str_strip(lines[i])]

\* lines 187-207
body_entry(s) ==
    LET content_lines == SelectSeq(StrippedLines(s), is_body_line)
    IN  IF content_lines # <<>>
        THEN "body" :> str_join_lines(Take(content_lines, BODY_LINES_CAP))
        ELSE EmptyDict

\* lines 136-140: the text the patterns are searched in
pattern_text(content) ==
    LET text_content == decode_utf8(content)
    IN  IF str_strip(text_content) # <<>>
        THEN text_content
        ELSE decode_latin1(content)

extract_text_patterns(content) ==
    LET s  == pattern_text(content)
        ls == str_lower(s)
    IN  subject_entry(s, ls) @@ sender_entry(s, ls) @@ to_entry(s, ls) @@ body_entry(s)

(***************************************************************************)
(* Paths                                                                   *)
(***************************************************************************)
\* str.split(c)
RECURSIVE str_split_on(_, _)
str_split_on(s, c) ==
    LET at == {i \in 1..Len(s) : s[i] = c}
    IN  IF at = {}
        THEN <<s>>
        ELSE LET k == SetMin(at)
             IN  <<SubSeq(s, 1, k - 1)>> \o str_split_on(SubSeq(s, k + 1, Len(s)), c)

IsPathPart(part) == part # <<>> /\ part # <<".">>

\* PurePath.name: the last component of the path, "" when it has none
path_name(path) ==
    LET parts == SelectSeq(str_split_on(path, "/"), IsPathPart)
    IN  IF parts = <<>> THEN <<>> ELSE parts[Len(parts)]

\* PurePath.suffix: the name from its last dot on, when that dot is neither
\* the first nor the last character of the name
path_suffix(path) ==
    LET name == path_name(path)
        dots == {i \in 1..Len(name) : name[i] = "."}
    IN  IF dots = {} THEN <<>>
        ELSE LET k == SetMax(dots)
             IN  IF 1 < k /\ k < Len(name) THEN SubSeq(name, k, Len(name)) ELSE <<>>

EXT_PDF  == <<".","p","d","f">>
EXT_EML  == <<".","e","m","l">>
EXT_MSG  == <<".","m","s","g">>
EXT_TXT  == <<".","t","x","t">>
EXT_HTML == <<".","h","t","m","l">>
EXT_HTM  == <<".","h","t","m">>

(***************************************************************************)
(* EmailFileProcessor._extract_text_from_attachment                        *)
(***************************************************************************)
\* position j of s stands in a match of <[^>]+>: a "<" at or before it whose
\* first ">" comes at or after j, with a character between the two
InTag(s, j) ==
    \E i \in 1..j :
        /\ s[i] = "<"
        /\ \E k \in (i + 2)..Len(s) :
              /\ s[k] = ">"
              /\ k >= j
              /\ \A q \in (i + 1)..(k - 1) : s[q] # ">"

\* re.sub(r"<[^>]+>", "", s)
remove_tags(s) ==
    SelectSeq([j \in 1..Len(s) |-> IF InTag(s, j) THEN "" ELSE s[j]], IsKept)

\* re.sub(r"\s+", " ", s): the first character of a run of white space
\* becomes a space, the others go
collapse_spaces(s) ==
    SelectSeq([j \in 1..Len(s) |->
                  IF ~IsSpace(s[j]) THEN s[j]
                  ELSE IF j > 1 /\ IsSpace(s[j - 1]) THEN "" ELSE " "],
              IsKept)

\* _html_to_text without markdownify, lines 376-384
html_to_text(html) == str_strip(collapse_spaces(remove_tags(html)))

\* str(e) of the exception of a fault
exception_text(fault) ==
    CASE fault = "create"    -> <<"n","o"," ","t","e","m","p"," ","d","i","r">>
      [] fault = "write"     -> <<"n","o"," ","s","p","a","c","e">>
      [] fault = "extractor" -> <<"n","o"," ","P","y","P","D","F","2">>
      [] fault = "payload"   -> <<"b","a","d"," ","p","a","y","l","o","a","d">>

\* line 342: the text the handler returns
attachment_error(filename, fault) ==
    <<"[","E","r","r","o","r"," ","e","x","t","r","a","c","t","i","n","g"," ",
      "t","e","x","t"," ","f","r","o","m"," ">> \o filename \o <<":"," ">>
        \o exception_text(fault) \o <<"]">>

\* a str the call returns, and the None of line 339
Returned(txt) == [none |-> FALSE, text |-> txt]

ReturnedNone == [none |-> TRUE, text |-> <<>>]

\* lines 310-322: plain text and HTML are decoded in place; for a PDF the
\* temporary file is created
AttachStart ==
    /\ att_pc = "start"
    /\ LET file_ext == str_lower(path_suffix(att_in.filename))
       IN  IF file_ext = EXT_TXT
           THEN /\ att_ret' = Returned(decode_utf8(att_in.data))
                /\ att_pc' = "done"
                /\ UNCHANGED tmp_exists
           ELSE IF file_ext = EXT_HTML \/ file_ext = EXT_HTM
           THEN /\ att_ret' = Returned(html_to_text(decode_utf8(att_in.data)))
                /\ att_pc' = "done"
                /\ UNCHANGED tmp_exists
           ELSE IF file_ext = EXT_PDF
           THEN IF att_in.fault = "create"
                THEN /\ att_ret' = Returned(attachment_error(att_in.filename, "create"))
                     /\ att_pc' = "done"
                     /\ UNCHANGED tmp_exists
                ELSE /\ tmp_exists' = TRUE
                     /\ att_pc' = "write"
                     /\ UNCHANGED att_ret
           ELSE /\ att_ret' = ReturnedNone
                /\ att_pc' = "done"
                /\ UNCHANGED tmp_exists
    /\ UNCHANGED <<att_in, pdfVars, nonAttVars>>

\* lines 322-324: the bytes are written; the with block closes the file and,
\* with delete=False, leaves it where it is; an exception of the write goes
\* to the handler of line 341
AttachWrite ==
    /\ att_pc = "write"
    /\ IF att_in.fault = "write"
       THEN /\ att_ret' = Returned(attachment_error(att_in.filename, "write"))
            /\ att_pc' = "done"
       ELSE /\ att_pc' = "try"
            /\ UNCHANGED att_ret
    /\ UNCHANGED <<att_in, tmp_exists, pdfVars, nonAttVars>>

\* lines 326-334: the extractor is imported and made, and extract_text_from_pdf
\* is called on the temporary file; an exception runs the finally clause and
\* goes to the handler of line 341
AttachExtract ==
    /\ att_pc = "try"
    /\ IF att_in.fault = "extractor"
       THEN /\ tmp_exists' = FALSE
            /\ att_ret' = Returned(attachment_error(att_in.filename, "extractor"))
            /\ att_pc' = "done"
            /\ UNCHANGED pc
       ELSE /\ pc' = "open"
            /\ att_pc' = "extract"
            /\ UNCHANGED <<tmp_exists, att_ret>>
    /\ UNCHANGED <<att_in, pdfIn, ocr_site, poolVars, page_texts, text,
                   parallel_ret, ocr_ret, ocr_calls, raw_text, clean_text, result,
                   run, first_result, nonAttVars>>

\* lines 332-334: extract_text_from_pdf has returned; the finally clause
\* removes the temporary file and the text is returned
AttachReturn ==
    /\ att_pc = "extract"
    /\ pc = "returned"
    /\ tmp_exists' = FALSE
    /\ att_ret' = Returned(raw_text)
    /\ att_pc' = "done"
    /\ UNCHANGED <<att_in, pdfVars, nonAttVars>>

\* the attachments: file names, bytes, faults
AttName(ext) == <<"a">> \o ext

AttExtensions ==
    {EXT_TXT, EXT_HTML, EXT_HTM, EXT_PDF, <<".","P","D","F">>, <<".","d","o","c">>, <<>>}

AttChunk(name) ==
    CASE name = "b"   -> <<"<","b",">">>
      [] name = "hi"  -> <<"h","i">>
      [] name = "sp"  -> <<" ">>
      [] name = "nl"  -> <<NL>>
      [] name = "lt"  -> <<"<">>
      [] name = "gt"  -> <<">">>
      [] name = "xFF" -> <<"xFF">>

AttChunkNames == {"b", "hi", "sp", "nl", "lt", "gt", "xFF"}

\* the longest attachment, in chunks
MaxAttChunks == 3

RECURSIVE FlattenAtt(_)
FlattenAtt(cs) == IF cs = <<>> THEN <<>> ELSE AttChunk(cs[1]) \o FlattenAtt(Tail(cs))

AttDatas == {FlattenAtt(cs) : cs \in UNION {[1..n -> AttChunkNames] : n \in 0..MaxAttChunks}}

AttFaults == {"none", "create", "write", "extractor"}

IsPdfName(filename) == str_lower(path_suffix(filename)) = EXT_PDF

\* an attachment with text in it, or an embedded PDF; the bytes of a PDF are
\* the document doc
InitAttach ==
    /\ att_in \in {[filename |-> AttName(e), data |-> d, fault |-> f] :
                      e \in AttExtensions, d \in AttDatas, f \in AttFaults}
    /\ IF IsPdfName(att_in.filename)
       THEN att_in.data = <<>>
       ELSE att_in.fault = "none"
    /\ att_pc = "start"
    /\ tmp_exists = FALSE
    /\ att_ret = ReturnedNone
    /\ IF IsPdfName(att_in.filename) /\ att_in.fault = "none"
       THEN PdfInputs(Docs)
       ELSE /\ doc = UnreadableDoc
            /\ ocr_available = FALSE
            /\ max_workers = 1
            /\ ocr_in = OcrDefault(UnreadableDoc)
    /\ NoCall
    /\ pc = "off"
    /\ run = 1
    /\ first_result = {}

AttIdle ==
    /\ att_in = [filename |-> <<>>, data |-> <<>>, fault |-> "none"]
    /\ att_pc = "off"
    /\ tmp_exists = FALSE
    /\ att_ret = ReturnedNone

(***************************************************************************)
(* Regular expressions: re.findall                                         *)
(*                                                                         *)
(* A pattern is written as its syntax tree.  MatchEnds gives, for a start  *)
(* position, the positions at which a match of the pattern can end, in the *)
(* order in which the backtracking matcher of re tries them: the first is  *)
(* the match re reports.                                                   *)
(***************************************************************************)
Cls(cs) == [t |-> "set", cs |-> cs, neg |-> FALSE]

NotCls(cs) == [t |-> "set", cs |-> cs, neg |-> TRUE]

Lit(w) == [t |-> "lit", w |-> w]

Cat(rs) == [t |-> "cat", rs |-> rs]

Alt(rs) == [t |-> "alt", rs |-> rs]

\* class{lo,hi}, greedy; hi = -1 for no upper bound
Rep(class, lo, hi) == [t |-> "rep", r |-> class, lo |-> lo, hi |-> hi]

Star(class) == Rep(class, 0, -1)

Opt(r) == [t |-> "opt", r |-> r]

WordBoundary == [t |-> "wb"]

\* (?:w1|w2|...)
Words(ws) == Alt([k \in 1..Len(ws) |-> Lit(ws[k])])

ClassMatches(class, c) == (c \in class.cs) # class.neg

\* \w
IsWordChar(c) == IsAlpha(c) \/ c \in Digits \/ c = "_"

\* \b at position i: a word character on exactly one side
AtWordBoundary(s, i) ==
    (i > 1 /\ IsWordChar(s[i - 1])) # (i <= Len(s) /\ IsWordChar(s[i]))

RECURSIVE MatchEnds(_, _, _)
RECURSIVE EndsFromAll(_, _, _)
RECURSIVE CatEnds(_, _, _)
RECURSIVE AltEnds(_, _, _)
\* the ends of r from each of the starts, in the order of the starts
EndsFromAll(r, s, starts) ==
    IF starts = <<>> THEN <<>>
    ELSE IF Len(starts) = 1 THEN MatchEnds(r, s, starts[1])
    ELSE LET h == Len(starts) \div 2
         IN  EndsFromAll(r, s, SubSeq(starts, 1, h))
                 \o EndsFromAll(r, s, SubSeq(starts, h + 1, Len(starts)))

CatEnds(rs, s, starts) ==
    IF rs = <<>> THEN starts
    ELSE CatEnds(Tail(rs), s, EndsFromAll(rs[1], s, starts))

AltEnds(rs, s, i) ==
    IF rs = <<>> THEN <<>>
    ELSE MatchEnds(rs[1], s, i) \o AltEnds(Tail(rs), s, i)

MatchEnds(r, s, i) ==
    CASE r.t = "set" -> IF i <= Len(s) /\ ClassMatches(r, s[i])
                        THEN <<i + 1>> ELSE <<>>
      [] r.t = "lit" -> IF LiteralAt(s, i, r.w) THEN <<i + Len(r.w)>> ELSE <<>>
      [] r.t = "wb"  -> IF AtWordBoundary(s, i) THEN <<i>> ELSE <<>>
      [] r.t = "cat" -> CatEnds(r.rs, s, <<i>>)
      [] r.t = "alt" -> AltEnds(r.rs, s, i)
      [] r.t = "opt" -> MatchEnds(r.r, s, i) \o <<i>>
      [] r.t = "rep" ->
            LET stop == {j \in i..Len(s) : ~ClassMatches(r.r, s[j])}
                most == (IF stop = {} THEN Len(s) + 1 ELSE SetMin(stop)) - i
                n    == IF r.hi >= 0 /\ most > r.hi THEN r.hi ELSE most
            IN  IF n < r.lo THEN <<>>
                ELSE [k \in 1..(n - r.lo + 1) |-> i + n - (k - 1)]

\* where the match of r that starts at p ends, 0 when there is none
FirstEnd(r, s, p) ==
    LET ends == MatchEnds(r, s, p)
    IN  IF ends = <<>> THEN 0 ELSE ends[1]

\* the matches from position pos on, leftmost first and not overlapping, at
\* most limit of them; ends[p] is where the match that starts at p ends
RECURSIVE FindFrom(_, _, _, _)
FindFrom(s, ends, pos, limit) ==
    LET found == {p \in pos..Len(s) : ends[p] # 0}
    IN  IF limit = 0 \/ found = {} THEN <<>>
        ELSE LET p == SetMin(found)
             IN  <<SubSeq(s, p, ends[p] - 1)>>
                     \o FindFrom(s, ends, IF ends[p] > p THEN ends[p] ELSE p + 1,
                                 limit - 1)

\* re.findall(r, s)[:limit]
re_findall(r, s, limit) ==
    FindFrom(s, [p \in 1..Len(s) |-> FirstEnd(r, s, p)], 1, limit)

\* re.findall(r, s, re.IGNORECASE)[:limit] for a pattern written in lower
\* case: the match is looked for in the text in lower case
re_findall_ignorecase(r, s, limit) ==
    LET ls == str_lower(s)
    IN  FindFrom(s, [p \in 1..Len(s) |-> FirstEnd(r, ls, p)], 1, limit)

(***************************************************************************)
(* PDFEmailSummarizer._generate_basic_summary                              *)
(***************************************************************************)
Digit == Cls(Digits)

\* [/-]
DateSep == Cls({"/", "-"})

\* [^.]*
NoDots == Star(NotCls({"."}))

\* line 218: \b\d{1,2}[/-]\d{1,2}[/-]\d{2,4}\b
DATE_DMY ==
    Cat(<<WordBoundary, Rep(Digit, 1, 2), DateSep, Rep(Digit, 1, 2), DateSep,
          Rep(Digit, 2, 4), WordBoundary>>)

\* line 219: \b\d{4}[/-]\d{1,2}[/-]\d{1,2}\b
DATE_YMD ==
    Cat(<<WordBoundary, Rep(Digit, 4, 4), DateSep, Rep(Digit, 1, 2), DateSep,
          Rep(Digit, 1, 2), WordBoundary>>)

\* line 220, the month names in lower case
MONTHS ==
    <<<<"j","a","n">>, <<"f","e","b">>, <<"m","a","r">>, <<"a","p","r">>,
      <<"m","a","y">>, <<"j","u","n">>, <<"j","u","l">>, <<"a","u","g">>,
      <<"s","e","p">>, <<"o","c","t">>, <<"n","o","v">>, <<"d","e","c">>>>

\* line 220: \b(?:Jan|...|Dec)[a-z]* \d{1,2},? \d{4}\b
DATE_MONTH ==
    Cat(<<WordBoundary, Words(MONTHS), Star(Cls(LowerSet)), Lit(<<" ">>),
          Rep(Digit, 1, 2), Opt(Lit(<<",">>)), Lit(<<" ">>), Rep(Digit, 4, 4),
          WordBoundary>>)

\* line 229: \$[\d,]+(?:\.\d{2})?
MONEY ==
    Cat(<<Lit(<<"$">>), Rep(Cls(Digits \cup {","}), 1, -1),
          Opt(Cat(<<Lit(<<".">>), Rep(Digit, 2, 2)>>))>>)

\* line 236
ACTION_WORDS ==
    <<<<"d","e","a","d","l","i","n","e">>, <<"d","u","e">>,
      <<"c","o","m","p","l","e","t","e">>, <<"f","i","n","i","s","h">>,
      <<"d","e","l","i","v","e","r">>, <<"s","u","b","m","i","t">>,
      <<"s","e","n","d">>, <<"r","e","v","i","e","w">>,
      <<"a","p","p","r","o","v","e">>, <<"s","i","g","n">>,
      <<"m","e","e","t">>, <<"c","a","l","l">>,
      <<"d","i","s","c","u","s","s">>, <<"d","e","c","i","d","e">>>>

\* line 237
URGENCY_WORDS ==
    <<<<"u","r","g","e","n","t">>, <<"i","m","p","o","r","t","a","n","t">>,
      <<"p","r","i","o","r","i","t","y">>, <<"a","s","a","p">>,
      <<"i","m","m","e","d","i","a","t","e","l","y">>,
      <<"c","r","i","t","i","c","a","l">>>>

\* line 238
TASK_WORDS ==
    <<<<"a","c","t","i","o","n"," ","i","t","e","m">>,
      <<"t","o"," ","d","o">>, <<"t","a","s","k">>,
      <<"a","s","s","i","g","n","m","e","n","t">>,
      <<"r","e","s","p","o","n","s","i","b","i","l","i","t","y">>>>

\* line 294
DEADLINE_WORDS ==
    <<<<"d","e","a","d","l","i","n","e">>, <<"d","u","e">>, <<"b","y">>,
      <<"b","e","f","o","r","e">>>>

\* line 294
WEEKDAYS ==
    <<<<"m","o","n","d","a","y">>, <<"t","u","e","s","d","a","y">>,
      <<"w","e","d","n","e","s","d","a","y">>,
      <<"t","h","u","r","s","d","a","y">>, <<"f","r","i","d","a","y">>,
      <<"s","a","t","u","r","d","a","y">>, <<"s","u","n","d","a","y">>>>

\* line 300
DECISION_WORDS ==
    <<<<"d","e","c","i","d","e","d">>, <<"a","g","r","e","e","d">>,
      <<"c","o","n","c","l","u","d","e","d">>,
      <<"d","e","t","e","r","m","i","n","e","d">>,
      <<"a","p","p","r","o","v","e","d">>,
      <<"r","e","j","e","c","t","e","d">>>>

\* lines 236-238: (?:word|...)[^.]*
KeywordRun(ws) == Cat(<<Words(ws), NoDots>>)

\* line 294: (?:deadline|due|by|before)[^.]*(?:\d{1,2}[/-]\d{1,2}[/-]\d{2,4}|
\* \b(?:monday|...|sunday)\b)
DEADLINE ==
    Cat(<<Words(DEADLINE_WORDS), NoDots,
          Alt(<<Cat(<<Rep(Digit, 1, 2), DateSep, Rep(Digit, 1, 2), DateSep,
                      Rep(Digit, 2, 4)>>),
                Cat(<<WordBoundary, Words(WEEKDAYS), WordBoundary>>)>>)>>)

DecimalDigits == <<"0", "1", "2", "3", "4", "5", "6", "7", "8", "9">>

\* str(n) of a natural number
RECURSIVE int_str(_)
int_str(n) ==
    IF n < 10 THEN <<DecimalDigits[n + 1]>>
    ELSE int_str(n \div 10) \o <<DecimalDigits[(n % 10) + 1]>>

\* sep.join(parts)
RECURSIVE str_join(_, _)
str_join(parts, sep) ==
    IF parts = <<>> THEN <<>>
    ELSE IF Len(parts) = 1 THEN parts[1]
    ELSE parts[1] \o sep \o str_join(Tail(parts), sep)

\* the literals of the summary; a character outside ASCII is written as one
\* symbol
T_HEADER ==
    <<"*","*","<mail>"," ","E","m","a","i","l"," ","T","h","r","e","a","d",
      " ","S","u","m","m","a","r","y","*","*">>

T_COUNT ==
    <<"*","*","N","u","m","b","e","r"," ","o","f"," ","e","m","a","i","l",
      "s",":","*","*"," ">>

T_SUBJECT ==
    <<"*","*","S","u","b","j","e","c","t",":","*","*"," ">>

T_MAIN ==
    <<"*","*","M","a","i","n"," ","p","a","r","t","i","c","i","p","a","n",
      "t","s",":","*","*"," ","*","*">>

T_ARROW ==
    <<"*","*"," ","<arrow>"," ","*","*">>

T_BOLD ==
    <<"*","*">>

T_DATE ==
    <<"*","*","D","a","t","e",":","*","*"," ">>

T_AMOUNT ==
    <<"*","*","A","m","o","u","n","t",":","*","*"," ">>

T_ACTION ==
    <<"*","*","A","c","t","i","o","n",":","*","*"," ">>

T_DOTS ==
    <<".",".",".">>

T_PREVIEW ==
    <<"*","*","C","o","n","t","e","n","t"," ","p","r","e","v","i","e","w",
      ":","*","*"," ">>

T_DETAILS ==
    <<"*","*","<search>"," ","I","m","p","o","r","t","a","n","t"," ","D",
      "e","t","a","i","l","s"," ","F","o","u","n","d",":","*","*">>

T_THREAD ==
    <<"\n","*","*","<thread>"," ","T","h","r","e","a","d"," ","c","o","n",
      "t","a","i","n","s"," ">>

T_RELATED ==
    <<" ","r","e","l","a","t","e","d"," ","e","m","a","i","l","s","*","*">>

T_ALL ==
    <<"*","*","A","l","l"," ","p","a","r","t","i","c","i","p","a","n","t",
      "s",":","*","*"," ">>

T_TOPIC ==
    <<"*","*","T","o","p","i","c"," ","e","v","o","l","u","t","i","o","n",
      ":","*","*"," ">>

T_SUBJECTS ==
    <<" ","d","i","f","f","e","r","e","n","t"," ","s","u","b","j","e","c",
      "t","s"," ","d","i","s","c","u","s","s","e","d">>

T_DEADLINE ==
    <<"*","*","<clock>"," ","D","e","a","d","l","i","n","e",":","*","*",
      " ">>

T_DECISION ==
    <<"*","*","<check>"," ","D","e","c","i","s","i","o","n",":","*","*",
      " ">>

T_HIGHLIGHTS ==
    <<"*","*","<target>"," ","K","e","y"," ","T","h","r","e","a","d"," ",
      "H","i","g","h","l","i","g","h","t","s",":","*","*">>

\* the set s in an order in which it can be iterated
SetOrders(s) ==
    {o \in [1..Cardinality(s) -> s] : \A x \in s : \E i \in DOMAIN o : o[i] = x}

UNKNOWN == <<"U","n","k","n","o","w","n">>

\* lines 202-207: sender, and recipient, of the first email
first_sender(email) == dict_get(email, "sender", dict_get(email, "from", UNKNOWN))

first_recipient(email) == dict_get(email, "recipient", dict_get(email, "to", UNKNOWN))

Prefixed(prefix, texts) == [k \in DOMAIN texts |-> prefix \o texts[k]]

\* lines 223-226
date_details(content) ==
    Prefixed(T_DATE, re_findall_ignorecase(DATE_DMY, content, 3))
        \o Prefixed(T_DATE, re_findall_ignorecase(DATE_YMD, content, 3))
        \o Prefixed(T_DATE, re_findall_ignorecase(DATE_MONTH, content, 3))

\* lines 229-232
amount_details(content) == Prefixed(T_AMOUNT, re_findall(MONEY, content, 3))

\* lines 241-244, for one pattern
action_details_of(ws, content) ==
    LET actions == re_findall_ignorecase(KeywordRun(ws), content, 2)
    IN  [k \in DOMAIN actions |-> T_ACTION \o Take(actions[k], 100) \o T_DOTS]

\* lines 235-244
action_details(content) ==
    action_details_of(ACTION_WORDS, content)
        \o action_details_of(URGENCY_WORDS, content)
        \o action_details_of(TASK_WORDS, content)

\* lines 199-253: the part of the summary about the first email
first_email_parts(first_email) ==
    LET content == first_email["content"]
        important_details ==
            date_details(content) \o amount_details(content) \o action_details(content)
    IN  <<T_SUBJECT \o first_email["subject"],
          T_MAIN \o first_sender(first_email) \o T_ARROW
              \o first_recipient(first_email) \o T_BOLD,
          T_PREVIEW \o Take(content, 300) \o T_DOTS>>
            \o (IF important_details # <<>>
                THEN <<T_DETAILS>> \o Take(important_details, 5)
                ELSE <<>>)

\* line 266: email.get("sender", email.get("from")), <<>> for None
any_sender(email) == dict_get(email, "sender", dict_get(email, "from", <<>>))

\* lines 262-268
participants_of(emails) ==
    {any_sender(emails[k]) : k \in DOMAIN emails} \ {<<>>, NOT_FOUND}

\* lines 263-272
subjects_of(emails) ==
    {dict_get(emails[k], "subject", <<>>) : k \in DOMAIN emails} \ {<<>>}

\* lines 264-274
RECURSIVE all_content_of(_)
all_content_of(emails) ==
    IF emails = <<>> THEN <<>>
    ELSE <<" ">> \o dict_get(emails[1], "content", <<>>) \o all_content_of(Tail(emails))

\* lines 294-305
thread_details_of(all_content) ==
    LET deadlines == re_findall_ignorecase(DEADLINE, all_content, 2)
        decisions == re_findall_ignorecase(KeywordRun(DECISION_WORDS), all_content, 2)
    IN  [k \in DOMAIN deadlines |-> T_DEADLINE \o Take(deadlines[k], 80) \o T_DOTS]
            \o [k \in DOMAIN decisions |->
                    T_DECISION \o Take(decisions[k], 80) \o T_DOTS]

\* lines 255-308: the part of the summary about the thread; order is the order
\* in which the set of participants is iterated
thread_parts(emails, order) ==
    LET thread_details == thread_details_of(all_content_of(emails))
        shown == Take(order, 5)
    IN  <<T_THREAD \o int_str(Len(emails)) \o T_RELATED>>
            \o (IF order # <<>>
                THEN <<T_ALL \o str_join([k \in DOMAIN shown |->
                                              T_BOLD \o shown[k] \o T_BOLD],
                                          <<",", " ">>)>>
                ELSE <<>>)
            \o (IF Cardinality(subjects_of(emails)) > 1
                THEN <<T_TOPIC \o int_str(Cardinality(subjects_of(emails)))
                           \o T_SUBJECTS>>
                ELSE <<>>)
            \o (IF thread_details # <<>>
                THEN <<T_HIGHLIGHTS>> \o thread_details
                ELSE <<>>)

\* lines 191-310
generate_basic_summary(emails, order) ==
    str_join(<<T_HEADER, T_COUNT \o int_str(Len(emails))>>
                 \o (IF Len(emails) > 0 THEN first_email_parts(emails[1]) ELSE <<>>)
                 \o (IF Len(emails) > 1 THEN thread_parts(emails, order) ELSE <<>>),
             <<NL, NL>>)

(***************************************************************************)
(* EmailFileProcessor._process_eml_file                                    *)
(*                                                                         *)
(* A .eml file is given as the message email.message_from_bytes makes of   *)
(* it: the headers it has, and the parts msg.walk() yields that are not    *)
(* multipart, in the order of the walk.                                    *)
(***************************************************************************)
H_SUBJECT == "Subject"

H_FROM == "From"

H_TO == "To"

H_CC == "Cc"

H_DATE == "Date"

H_MESSAGE_ID == "Message-ID"

TEXT_PLAIN == "text/plain"

TEXT_HTML == "text/html"

OCTET_STREAM == "application/octet-stream"

APPLICATION_PDF == "application/pdf"

ATTACHMENT == <<"a","t","t","a","c","h","m","e","n","t">>

\* _decode_header on a header without encoded words: the value, stripped
decode_header_value(header_value) ==
    IF header_value = <<>> THEN <<>> ELSE str_strip(header_value)

\* _extract_text_from_attachment, lines 310-318 and 339, for an attachment
\* that is not a PDF
extract_text_in_place(data, filename) ==
    LET file_ext == str_lower(path_suffix(filename))
    IN  IF file_ext = EXT_TXT
        THEN Returned(decode_utf8(data))
        ELSE IF file_ext = EXT_HTML \/ file_ext = EXT_HTM
        THEN Returned(html_to_text(decode_utf8(data)))
        ELSE ReturnedNone

\* self.extractable_attachments, lines 32-40
EXTRACTABLE ==
    {EXT_PDF, EXT_TXT, <<".","d","o","c">>, <<".","d","o","c","x">>,
     <<".","r","t","f">>, EXT_HTML, EXT_HTM}

\* _extract_text_from_attachment, lines 306-342, as _process_attachment calls
\* it: for a PDF whose temporary file cannot be made or written, or whose
\* extractor cannot be made, the handler of line 341 returns its text
extract_text_from_attachment(part, filename) ==
    IF str_lower(path_suffix(filename)) = EXT_PDF /\ part.fault # "none"
    THEN Returned(attachment_error(filename, part.fault))
    ELSE extract_text_in_place(part.payload, filename)

UNKNOWN_ATTACHMENT ==
    <<"u","n","k","n","o","w","n","_","a","t","t","a","c","h","m","e","n","t">>

\* _process_attachment, lines 233-272, for a part with a file name:
\* extracted_text stays None unless text that is not empty was extracted; an
\* exception of get_payload goes to the handler of line 266
process_attachment(part) ==
    IF part.fault = "payload"
    THEN [filename     |-> UNKNOWN_ATTACHMENT,
          content_type |-> "unknown",
          size         |-> 0,
          error        |-> exception_text("payload")]
    ELSE
    LET filename  == decode_header_value(part.filename)
        extracted ==
            IF /\ part.payload # <<>>
               /\ str_lower(path_suffix(filename)) \in EXTRACTABLE
            THEN extract_text_from_attachment(part, filename)
            ELSE ReturnedNone
    IN  [filename       |-> filename,
         content_type   |-> part.content_type,
         size           |-> Len(part.payload),
         extracted_text |-> IF extracted.text = <<>> THEN ReturnedNone ELSE extracted]

MULTIPART_ALTERNATIVE == "multipart/alternative"

\* part.is_multipart(), line 108: a part of a multipart type with parts in it
is_multipart(part) == part.content_type = MULTIPART_ALTERNATIVE

\* line 111
IsAttachment(part) == str_contains(part.disposition, ATTACHMENT)

\* a test of the parts of the body that does not look at the disposition
HasBodyTextAnyDisposition(part) ==
    /\ ~is_multipart(part)
    /\ part.content_type \in {TEXT_PLAIN, TEXT_HTML}
    /\ part.payload # <<>>

\* lines 108-150: the text of a part of the body, <<>> when it adds none
HasBodyText(part) ==
    /\ ~is_multipart(part)
    /\ ~IsAttachment(part)
    /\ part.content_type \in {TEXT_PLAIN, TEXT_HTML}
    /\ part.payload # <<>>

body_text(part) ==
    IF part.content_type = TEXT_PLAIN
    THEN decode_utf8(part.payload)
    ELSE html_to_text(decode_utf8(part.payload))

\* lines 108-115 and 236-238: a container gives no attachment, and nor does
\* a part without a file name
HasAttachment(part) == ~is_multipart(part) /\ IsAttachment(part) /\ part.filename # <<>>

\* d[key] = value of a dict kept as the sequence of its items
dict_put(items, key, value) ==
    IF \E i \in DOMAIN items : items[i].key = key
    THEN [i \in DOMAIN items |->
             IF items[i].key = key THEN [key |-> key, value |-> value] ELSE items[i]]
    ELSE Append(items, [key |-> key, value |-> value])

\* lines 119-122, over the attachments in the order of the walk
RECURSIVE attachment_contents_of(_)
attachment_contents_of(attachments) ==
    IF attachments = <<>> THEN <<>>
    ELSE LET info == attachments[Len(attachments)]
             rest == attachment_contents_of(SubSeq(attachments, 1, Len(attachments) - 1))
             extracted == IF "extracted_text" \in DOMAIN info
                          THEN info.extracted_text ELSE ReturnedNone
         IN  IF extracted.none
             THEN rest
             ELSE dict_put(rest, info.filename, extracted.text)

EML_FAILED ==
    <<"F","a","i","l","e","d"," ","t","o"," ","p","r","o","c","e","s","s"," ",
      ".","e","m","l"," ","f","i","l","e",":"," ">>

\* _process_eml_file, lines 77-158; an exception of open() or of the parser
\* gives the error record of line 158
process_eml_file(eml) ==
    IF eml.fault # "none"
    THEN [error |-> EML_FAILED \o <<"n","o"," ","a","c","c","e","s","s">>]
    ELSE LET header(name) == dict_get(eml.headers, name, <<>>)
             body_parts   == SelectSeq(eml.parts, HasBodyText)
             attachments  ==
                 LET with_name == SelectSeq(eml.parts, HasAttachment)
                 IN  [k \in DOMAIN with_name |-> process_attachment(with_name[k])]
         IN  [format              |-> "eml",
              subject             |-> decode_header_value(header(H_SUBJECT)),
              from                |-> decode_header_value(header(H_FROM)),
              sender              |-> decode_header_value(header(H_FROM)),
              to                  |-> decode_header_value(header(H_TO)),
              recipient           |-> decode_header_value(header(H_TO)),
              cc                  |-> decode_header_value(header(H_CC)),
              date                |-> header(H_DATE),
              message_id          |-> header(H_MESSAGE_ID),
              content             |->
                  str_join([k \in DOMAIN body_parts |-> body_text(body_parts[k])],
                           <<NL, NL>>),
              attachments         |-> attachments,
              attachment_contents |-> attachment_contents_of(attachments)]

(***************************************************************************)
(* EmailFileProcessor.extract_emails_from_file                             *)
(***************************************************************************)
ATTACHMENT_HEAD ==
    <<"\n","-","-","-"," ","A","t","t","a","c","h","m","e","n","t",":"," ">>

ATTACHMENT_TAIL == <<" ","-","-","-","\n">>

HasContent(item) == item.value # <<>>

\* lines 430-433
attachment_texts(parsed) ==
    LET items == SelectSeq(dict_get(parsed, "attachment_contents", <<>>), HasContent)
    IN  [k \in DOMAIN items |->
            ATTACHMENT_HEAD \o items[k].key \o ATTACHMENT_TAIL \o items[k].value]

\* lines 414-438: no record for an error record, and else one record, with
\* the texts of the attachments after the content
emails_of_result(parsed) ==
    IF "error" \in DOMAIN parsed
    THEN <<>>
    ELSE LET get(key) == dict_get(parsed, key, <<>>)
         IN  <<[subject    |-> get("subject"),
                sender     |-> dict_get(parsed, "sender", get("from")),
                from       |-> get("from"),
                recipient  |-> dict_get(parsed, "recipient", get("to")),
                to         |-> get("to"),
                date       |-> get("date"),
                content    |->
                    get("content")
                        \o (IF attachment_texts(parsed) # <<>>
                            THEN <<NL, NL>> \o str_join_lines(attachment_texts(parsed))
                            ELSE <<>>),
                message_id |-> get("message_id")]>>

(***************************************************************************)
(* NativeMsgParser._detect_attachments                                     *)
(***************************************************************************)
FILE_EXTENSIONS ==
    <<<<"p","d","f">>, <<"t","x","t">>, <<"d","o","c">>, <<"d","o","c","x">>,
      <<"h","t","m","l">>, <<"h","t","m">>, <<"r","t","f">>>>

\* [a-zA-Z0-9_\-\.], for a text in lower case
NameChar == Cls(LowerSet \cup Digits \cup {"_", "-", "."})

\* line 339: ([a-zA-Z0-9_\-\.]+\.(pdf|txt|doc|docx|html|htm|rtf)), whose first
\* group is the whole match
FILENAME_TOKEN ==
    Cat(<<Rep(NameChar, 1, -1), Lit(<<".">>), Words(FILE_EXTENSIONS)>>)

QUOTES == {"\"", "'"}

\* lines 340-341: word["\s]*=["\']\s*, the pattern before the group ([^"\']+)
NamePrefix(word) ==
    Cat(<<Lit(word), Star(Cls({"\""} \cup Whitespace)), Lit(<<"=">>),
          Cls(QUOTES), Star(Cls(Whitespace))>>)

L_filename == <<"f","i","l","e","n","a","m","e">>

L_name == <<"n","a","m","e">>

\* where the group ([^"\']+) starts in the match that starts at p: after the
\* first end of the prefix, in the order the matcher tries them, that a
\* character of the group follows; 0 when there is no match at p
GroupStart(prefix, ls, p) ==
    LET starts == SelectSeq(MatchEnds(prefix, ls, p),
                            LAMBDA e : e <= Len(ls) /\ ls[e] \notin QUOTES)
    IN  IF starts = <<>> THEN 0 ELSE starts[1]

\* the last index of the run [^"\']+ that starts at g
GroupEnd(ls, g) ==
    LET stop == {j \in g..Len(ls) : ls[j] \in QUOTES}
    IN  IF stop = {} THEN Len(ls) ELSE SetMin(stop) - 1

\* re.findall(prefix([^"\']+), s, re.IGNORECASE) from pos on: the groups
RECURSIVE find_groups_from(_, _, _, _)
find_groups_from(prefix, s, ls, pos) ==
    LET found == {p \in pos..Len(s) : GroupStart(prefix, ls, p) # 0}
    IN  IF found = {} THEN <<>>
        ELSE LET g == GroupStart(prefix, ls, SetMin(found))
             IN  <<SubSeq(s, g, GroupEnd(ls, g))>>
                     \o find_groups_from(prefix, s, ls, GroupEnd(ls, g) + 1)

SeqRange(q) == {q[i] : i \in DOMAIN q}

\* lines 327-330: the text the patterns are searched in
detection_text(content) ==
    IF str_strip(decode_utf8(content)) = <<>>
    THEN decode_latin1(content)
    ELSE decode_utf8(content)

\* lines 344-351: the set of the names the three patterns find
potential_files(text_content) ==
    SeqRange(re_findall_ignorecase(FILENAME_TOKEN, text_content, Len(text_content)))
        \cup SeqRange(find_groups_from(NamePrefix(L_filename), text_content,
                                       str_lower(text_content), 1))
        \cup SeqRange(find_groups_from(NamePrefix(L_name), text_content,
                                       str_lower(text_content), 1))

FILENAME_MIN == 3

\* line 355
IsFilename(filename) ==
    /\ \E i \in 1..Len(filename) : filename[i] = "."
    /\ Len(filename) > FILENAME_MIN

\* lines 354-362: an attachment for each name, in the order in which the set
\* of names is iterated
detected_attachments(order) ==
    LET names == SelectSeq(order, IsFilename)
    IN  [k \in DOMAIN names |->
            [filename       |-> names[k],
             content_type   |-> OCTET_STREAM,
             size           |-> 0,
             extracted_text |-> ReturnedNone]]

DETECTED_CONTENT ==
    <<"d","e","t","e","c","t","e","d","_","c","o","n","t","e","n","t",".",
      "t","x","t">>

STRUCTURED_PREFIXES ==
    {<<"F","r","o","m",":">>, <<"T","o",":">>,
     <<"S","u","b","j","e","c","t",":">>, <<"D","a","t","e",":">>}

STRUCTURED_LINE_MIN == 20

STRUCTURED_LINES_MIN == 5

STRUCTURED_TEXT_MIN == 100

STRUCTURED_TEXT_CAP == 1000

\* lines 374-378: the test of a stripped line for structured content; more
\* than 0.6 of its characters are alphabetic
is_structured_line(line) ==
    /\ Len(line) > STRUCTURED_LINE_MIN
    /\ ~\E p \in STRUCTURED_PREFIXES : str_startswith(line, p)
    /\ 10 * CountAlpha(line) > 6 * Len(line)

\* lines 370-402: the loop over the lines; current is
\* current_attachment_content, which only the test of line 384 empties
RECURSIVE collect_contents(_, _, _, _)
collect_contents(lines, current, contents, filename) ==
    IF lines = <<>> THEN contents
    ELSE IF ~is_structured_line(str_strip(lines[1]))
    THEN collect_contents(Tail(lines), current, contents, filename)
    ELSE LET grown        == Append(current, str_strip(lines[1]))
             content_text == str_join_lines(grown)
         IN  IF Len(grown) > STRUCTURED_LINES_MIN
             THEN collect_contents(
                      Tail(lines), <<>>,
                      IF Len(content_text) > STRUCTURED_TEXT_MIN
                      THEN dict_put(contents, filename,
                                    Take(content_text, STRUCTURED_TEXT_CAP))
                      ELSE contents,
                      filename)
             ELSE collect_contents(Tail(lines), grown, contents, filename)

\* _detect_attachments, lines 318-408; order is the order in which the set
\* potential_files is iterated
detect_attachments(content, order) ==
    LET attachments == detected_attachments(order)
    IN  [attachments         |-> attachments,
         attachment_contents |->
             collect_contents(str_split_lines(detection_text(content)), <<>>, <<>>,
                              IF attachments # <<>>
                              THEN attachments[1].filename
                              ELSE DETECTED_CONTENT)]

(***************************************************************************)
(* NativeMsgParser: the three tiers                                        *)
(***************************************************************************)
\* line 58, with a signature that is compared one byte short
signature_matches_short(content) ==
    Take(content, SIGNATURE_SIZE - 1) = Take(MSG_SIGNATURE, SIGNATURE_SIZE - 1)

\* lines 57-58: signature == self.MSG_SIGNATURE
signature_matches(content) == Take(content, SIGNATURE_SIZE) = MSG_SIGNATURE

\* _parse_compound_document, lines 109-123
parse_compound_document(content) ==
    IF Len(Take(content, HEADER_SIZE)) < HEADER_SIZE
    THEN EmptyDict
    ELSE extract_text_patterns(content)

\* line 68 with the values not looked at: not email_data
has_values_keys_only(data) == DOMAIN data # {}

\* line 68: email_data and any(email_data.values())
has_values(data) == \E k \in DOMAIN data : data[k] # <<>>

\* _get_best_content: no pattern sets html_body
get_best_content(data) == dict_get(data, "body", <<>>)

\* lines 82-97
structured_result(data, detected) ==
    [format              |-> "msg",
     subject             |-> dict_get(data, "subject", <<>>),
     from                |-> dict_get(data, "sender_email", <<>>),
     sender_name         |-> dict_get(data, "sender_name", <<>>),
     to                  |-> dict_get(data, "display_to", <<>>),
     content             |-> get_best_content(data),
     attachments         |-> detected.attachments,
     attachment_contents |-> detected.attachment_contents]

\* lines 257-264 with UTF-8 as the only encoding tried
first_readable_text_utf8_only(content) == decode_utf8(content)

\* lines 257-264: the text of the first encoding that gives text that is not
\* blank, and the text of the last encoding when none does
first_readable_text(content) ==
    LET text1 == decode(content, Encodings[1])
        text2 == decode(content, Encodings[2])
        text3 == decode(content, Encodings[3])
    IN  IF str_strip(text1) # <<>> THEN text1
        ELSE IF str_strip(text2) # <<>> THEN text2
        ELSE IF str_strip(text3) # <<>> THEN text3
        ELSE decode(content, Encodings[4])

READABLE_LINE_MIN == 10

READABLE_LINES_CAP == 10

SUBJECT_CAP == 100

CONTENT_CAP == 1000

\* lines 280-283: len(line) > 10 and more than 0.3 of it alphabetic
is_readable_line(line) ==
    /\ Len(line) > READABLE_LINE_MIN
    /\ 10 * CountAlpha(line) > 3 * Len(line)

\* lines 273-294: with neither subject nor body, the first readable lines
\* give both
with_readable_lines(data, text_content) ==
    LET readable_lines ==
            Take(SelectSeq(StrippedLines(text_content), is_readable_line),
                 READABLE_LINES_CAP)
    IN  IF /\ dict_get(data, "subject", <<>>) = <<>>
           /\ dict_get(data, "body", <<>>) = <<>>
           /\ readable_lines # <<>>
        THEN ("subject" :> Take(readable_lines[1], SUBJECT_CAP))
                 @@ ("body" :> str_join_lines(readable_lines))
                 @@ data
        ELSE data

MSG_FILE == <<"M","S","G"," ","F","i","l","e">>

\* the messages of the error records, without the path and the exception text
NO_READABLE_TEXT ==
    <<"C","o","u","l","d"," ","n","o","t"," ","e","x","t","r","a","c","t"," ",
      "r","e","a","d","a","b","l","e"," ","t","e","x","t"," ","f","r","o","m",
      " ","M","S","G"," ","f","i","l","e">>

MSG_NOT_FOUND ==
    <<"F","i","l","e"," ","n","o","t"," ","f","o","u","n","d">>

MSG_PARSE_FAILED ==
    <<"F","a","i","l","e","d"," ","t","o"," ","p","a","r","s","e"," ","M","S",
      "G"," ","f","i","l","e">>

MSG_EXTRACT_FAILED ==
    <<"F","a","i","l","e","d"," ","t","o"," ","e","x","t","r","a","c","t"," ",
      "M","S","G"," ","c","o","n","t","e","n","t">>

MsgError(message) == [error |-> message]

\* lines 296-313
fallback_result(data, text_content) ==
    [format         |-> "msg",
     subject        |-> dict_get(data, "subject", MSG_FILE),
     from           |-> dict_get(data, "sender_email", UNKNOWN),
     to             |-> dict_get(data, "display_to", <<>>),
     content        |-> dict_get(data, "body", Take(text_content, CONTENT_CAP)),
     attachments    |-> <<>>,
     attachment_contents |-> <<>>,
     parsing_method |-> "fallback_text_extraction"]

\* _fallback_text_extraction, lines 256-313, on the content read
fallback_text_extraction(content) ==
    LET text_content == first_readable_text(content)
    IN  IF str_strip(text_content) = <<>>
        THEN MsgError(NO_READABLE_TEXT)
        ELSE fallback_result(with_readable_lines(extract_text_patterns(content),
                                                 text_content),
                             text_content)

(***************************************************************************)
(* NativeMsgParser: the message files                                      *)
(***************************************************************************)
\* a signature that differs from MSG_SIGNATURE in its last byte only
NEAR_SIGNATURE == <<"xD0", "xCF", "x11", "xE0", "xA1", "xB1", "x1A", "xFF">>

SUBJECT_LINE == <<"S","u","b","j","e","c","t",":"," ","H","i">>

SUBJECT_ONLY == <<"S","u","b","j","e","c","t",":">>

FROM_NAME_LINE == <<"F","r","o","m",":"," ","A","l","i","c","e">>

TO_LINE == <<"T","o",":"," ","b","@","x",".","c","o","m">>

ANGLE_ADDRESS == <<"<","c","@","y",".","o","r","g",">">>

BODY_LINE == <<"P","l","e","a","s","e"," ","f","i","n","d"," ","t","h","e"," ",
               "r","e","p","o","r","t"," ","a","t","t","a","c","h","e","d">>

SHORT_LINE == <<"H","e","l","l","o"," ","w","o","r","l","d","!">>

\* the name of an attached file
FILE_NAME == <<"n",".","t","x","t">>

MsgChunk(name) ==
    CASE name = "subject"      -> SUBJECT_LINE
      [] name = "subject_only" -> SUBJECT_ONLY
      [] name = "from"         -> FROM_LINE
      [] name = "from_name"    -> FROM_NAME_LINE
      [] name = "to"           -> TO_LINE
      [] name = "angle"        -> ANGLE_ADDRESS
      [] name = "body"         -> BODY_LINE
      [] name = "short"        -> SHORT_LINE
      [] name = "file"         -> FILE_NAME
      [] name = "sp"           -> <<" ">>
      [] name = "nl"           -> <<"\n">>
      [] name = "crlf"         -> <<"\r", "\n">>
      [] name = "xFF"          -> <<"xFF">>

MsgChunkNames == {"subject", "subject_only", "from", "from_name", "to", "angle",
                  "body", "short", "file", "sp", "nl", "crlf", "xFF"}

\* the most chunks after the header of a generated file
MaxMsgChunks == 2

RECURSIVE FlattenMsg(_)
FlattenMsg(cs) == IF cs = <<>> THEN <<>> ELSE MsgChunk(cs[1]) \o FlattenMsg(Tail(cs))

SignatureBytes(sig) ==
    CASE sig = "none"  -> <<>>
      [] sig = "valid" -> MSG_SIGNATURE
      [] sig = "near"  -> NEAR_SIGNATURE

\* the bytes of the file: its first bytes, zero bytes up to the size of the
\* header when the file has a full header, and the chunks
MsgBytes(in) ==
    SignatureBytes(in.sig)
        \o (IF in.padded
            THEN [i \in 1..(HEADER_SIZE - Len(SignatureBytes(in.sig))) |-> "x00"]
            ELSE <<>>)
        \o FlattenMsg(in.chunks)

\* what goes wrong when the file is parsed: the file is missing, open() of
\* line 48 raises, the read of _parse_compound_document raises, an exception
\* reaches the handler of line 99, open() or read() of lines 253-254 raises
MsgFaults == {"none", "missing", "open", "tier2_read", "tier2_raise", "reopen"}

MsgChunkSeqs == UNION {[1..n -> MsgChunkNames] : n \in 0..MaxMsgChunks}

\* every file is parsed without a fault, the files of at most one chunk with
\* each fault as well; a fault of Tier 2 needs the signature Tier 2 runs for
MsgInputs ==
    {in \in [fault : MsgFaults, sig : {"none", "valid", "near"},
             padded : BOOLEAN, chunks : MsgChunkSeqs] :
        /\ in.fault # "none" => Len(in.chunks) <= 1
        /\ in.fault \in {"tier2_read", "tier2_raise"} => in.sig = "valid"}

NoResult == [pending |-> TRUE]

(***************************************************************************)
(* NativeMsgParser._detect_attachments on bounded buffers                  *)
(***************************************************************************)
\* the lines a buffer is built from: a body-like line, a line that is a
\* file name, a line with a name attribute
NAMED_LINE == <<"n","a","m","e","=","\"","r",".","d","o","c","\"">>

DetLineKinds == {"body", "file", "named"}

DetLine(kind) == IF kind = "named" THEN NAMED_LINE ELSE MsgChunk(kind)

MaxDetLines == 7

DetInputs == UNION {[1..n -> DetLineKinds] : n \in 0..MaxDetLines}

DetBuffer(kinds) == str_join_lines([k \in DOMAIN kinds |-> DetLine(kinds[k])])

NoDetection == [attachments |-> <<>>, attachment_contents |-> <<>>]

InitDetect ==
    /\ det_in \in DetInputs
    /\ det_pc = "ready"
    /\ det_out = NoDetection

DetIdle ==
    /\ det_in = <<>>
    /\ det_pc = "off"
    /\ det_out = NoDetection

\* a call of _detect_attachments on the buffer
DetectAttachments ==
    /\ det_pc = "ready"
    /\ \E order \in SetOrders(potential_files(detection_text(DetBuffer(det_in)))) :
           det_out' = detect_attachments(DetBuffer(det_in), order)
    /\ det_pc' = "done"
    /\ UNCHANGED <<det_in, nonDetVars>>

(***************************************************************************)
(* NativeMsgParser.parse_msg_file                                          *)
(***************************************************************************)
\* lines 42-51: a missing file and a failing open() give an error record
ParseMsgFile ==
    /\ msg_pc = "start"
    /\ IF msg_in.fault = "missing"
       THEN msg_result' = MsgError(MSG_NOT_FOUND) /\ msg_pc' = "done"
       ELSE IF msg_in.fault = "open"
       THEN msg_result' = MsgError(MSG_PARSE_FAILED) /\ msg_pc' = "done"
       ELSE msg_pc' = "signature" /\ UNCHANGED msg_result
    /\ UNCHANGED <<msg_in, msg_trace, email_data, nonMsgVars>>

\* Tier 1, lines 57-59: the signature check
ParseMsgStream ==
    /\ msg_pc = "signature"
    /\ msg_trace' = Append(msg_trace, "tier1")
    /\ msg_pc' = IF signature_matches(MsgBytes(msg_in)) THEN "tier2" ELSE "tier3"
    /\ UNCHANGED <<msg_in, email_data, msg_result, nonMsgVars>>

\* Tier 2, lines 62-101: the structured parse, and its result when it has a
\* value, with the attachments detected in the whole file
ParseCompoundDocument ==
    /\ msg_pc = "tier2"
    /\ msg_trace' = Append(msg_trace, "tier2")
    /\ IF msg_in.fault = "tier2_raise"
       THEN /\ msg_pc' = "tier3"
            /\ UNCHANGED <<email_data, msg_result>>
       ELSE /\ email_data' = IF msg_in.fault = "tier2_read"
                             THEN EmptyDict
                             ELSE parse_compound_document(MsgBytes(msg_in))
            /\ IF has_values(email_data')
               THEN /\ \E order \in SetOrders(potential_files(
                                                   detection_text(MsgBytes(msg_in)))) :
                           msg_result' =
                               structured_result(
                                   email_data',
                                   detect_attachments(MsgBytes(msg_in), order))
                    /\ msg_pc' = "done"
               ELSE /\ msg_pc' = "tier3"
                    /\ UNCHANGED msg_result
    /\ UNCHANGED <<msg_in, nonMsgVars>>

\* Tier 3, lines 250-316
FallbackTextExtraction ==
    /\ msg_pc = "tier3"
    /\ msg_trace' = Append(msg_trace, "tier3")
    /\ msg_result' = IF msg_in.fault = "reopen"
                     THEN MsgError(MSG_EXTRACT_FAILED)
                     ELSE fallback_text_extraction(MsgBytes(msg_in))
    /\ msg_pc' = "done"
    /\ UNCHANGED <<msg_in, email_data, nonMsgVars>>

NoMsgCall ==
    /\ msg_trace = <<>>
    /\ email_data = EmptyDict
    /\ msg_result = NoResult

InitMsg ==
    /\ msg_in \in MsgInputs
    /\ msg_pc = "start"
    /\ NoMsgCall

MsgIdle ==
    /\ msg_in = [fault |-> "missing", sig |-> "none", padded |-> FALSE, chunks |-> <<>>]
    /\ msg_pc = "off"
    /\ NoMsgCall

(***************************************************************************)
(* PDFEmailSummarizer._generate_summary                                    *)
(***************************************************************************)
AI_REPLY == <<"A"," ","s","u","m","m","a","r","y">>

\* summarize_with_openai, line 57: the text it returns when the request fails
AI_FAILED ==
    <<"E","r","r","o","r"," ","g","e","n","e","r","a","t","i","n","g"," ",
      "s","u","m","m","a","r","y",":"," ","t","i","m","e","o","u","t">>

\* what summarize_with_openai can return
AiReplies == {AI_REPLY, AI_FAILED}

\* line 189
SUMMARY_FAILED ==
    <<"E","r","r","o","r"," ","g","e","n","e","r","a","t","i","n","g"," ",
      "s","u","m","m","a","r","y",":"," ","b","a","d"," ","k","e","y">>

CLIENT_MIN_TEXT == 100

\* lines 158-167: the summarizer of the call; with an API key a new one is
\* made, which has a client, unless the module cannot be imported
has_client(in) ==
    IF in.api_key # "none" /\ in.collaborator # "unavailable"
    THEN TRUE
    ELSE in.collaborator = "client"

\* lines 169-173
calls_collaborator(in, text_given) ==
    has_client(in) /\ Len(text_given) > CLIENT_MIN_TEXT

\* lines 157-187 without the handler of line 188
generate_summary_unhandled(emails, text_given, in, order, reply) ==
    IF in.api_key = "raises" /\ in.collaborator # "unavailable"
    THEN [raised |-> SUMMARY_FAILED]
    ELSE [success         |-> TRUE,
          email_count     |-> Len(emails),
          summary         |-> IF calls_collaborator(in, text_given)
                              THEN reply
                              ELSE generate_basic_summary(emails, order),
          summary_type    |-> "medium",
          raw_text_length |-> Len(text_given),
          emails          |-> emails]

\* lines 157-189; an exception of AISummarizer(api_key=api_key) goes to the
\* handler of line 188
generate_summary(emails, text_given, in, order, reply) ==
    IF in.api_key = "raises" /\ in.collaborator # "unavailable"
    THEN [error |-> SUMMARY_FAILED]
    ELSE [success         |-> TRUE,
          email_count     |-> Len(emails),
          summary         |-> IF calls_collaborator(in, text_given)
                              THEN reply
                              ELSE generate_basic_summary(emails, order),
          summary_type    |-> "medium",
          raw_text_length |-> Len(text_given),
          emails          |-> emails]

(***************************************************************************)
(* PDFEmailSummarizer.summarize_emails_from_file                           *)
(***************************************************************************)
\* line 58, for the TypeError of Path(file_path)
FILE_FAILED ==
    <<"E","r","r","o","r"," ","p","r","o","c","e","s","s","i","n","g"," ",
      "f","i","l","e",":"," ","e","x","p","e","c","t","e","d"," ","s","t",
      "r",","," ","b","y","t","e","s"," ","o","r"," ","o","s",".","P","a",
      "t","h","L","i","k","e"," ","o","b","j","e","c","t",","," ","n","o",
      "t"," ","N","o","n","e","T","y","p","e">>

UNSUPPORTED ==
    <<"U","n","s","u","p","p","o","r","t","e","d"," ","f","i","l","e"," ",
      "f","o","r","m","a","t",":"," ">>

SUPPORTED_FORMATS ==
    <<"."," ","S","u","p","p","o","r","t","e","d"," ","f","o","r","m","a",
      "t","s",":"," ",".","p","d","f",","," ",".","e","m","l",","," ",".",
      "m","s","g">>

\* email_file_processor.py, line 57
FILE_NOT_FOUND ==
    <<"F","i","l","e"," ","n","o","t"," ","f","o","u","n","d",":"," ">>

\* line 127
NO_EMAILS ==
    <<"N","o"," ","e","m","a","i","l","s"," ","f","o","u","n","d"," ","i",
      "n"," ","t","h","e"," ","f","i","l","e">>

\* line 45 with the extension looked for anywhere in the path
file_extension_anywhere(in) ==
    IF str_contains(str_lower(in.path), EXT_PDF)
    THEN EXT_PDF
    ELSE str_lower(path_suffix(in.path))

\* the extension the file is routed by, lines 45-46
file_extension(in) == str_lower(path_suffix(in.path))

\* the locals of a call of _process_pdf_file, and the two runs
pdfLocals == <<ocr_site, poolVars, page_texts, text, parallel_ret, ocr_ret,
               ocr_calls, raw_text, clean_text, result, run, first_result>>

\* lines 44-59: the file is routed by its extension; Path(file_path) raises
\* for a path that is None, which the handler of line 58 makes an error record
Route ==
    /\ file_pc = "start"
    /\ IF ~file_in.is_str
       THEN /\ file_result' = [error |-> FILE_FAILED]
            /\ file_pc' = "done"
            /\ UNCHANGED <<pc, file_trace>>
       ELSE IF file_extension(file_in) = EXT_PDF
       THEN /\ file_pc' = "pdf"
            /\ pc' = "open"
            /\ file_trace' = Append(file_trace, "pdf_extractor")
            /\ UNCHANGED file_result
       ELSE IF file_extension(file_in) \in {EXT_EML, EXT_MSG}
       THEN /\ file_pc' = "call1"
            /\ UNCHANGED <<pc, file_trace, file_result>>
       ELSE /\ file_result' =
                [error |-> UNSUPPORTED \o file_extension(file_in) \o SUPPORTED_FORMATS]
            /\ file_pc' = "done"
            /\ UNCHANGED <<pc, file_trace>>
    /\ UNCHANGED <<file_in, file_email_data, file_parsed, pdfIn, pdfLocals, msgVars,
                   nonFileVars>>

\* _process_pdf_file, line 105 and the returns of lines 82 and 105: the
\* error record as it is, and else the summary of the records; the set of
\* participants is iterated in the order of the hashes of this process
SummarizePdf ==
    /\ file_pc = "pdf"
    /\ pc = "done"
    /\ IF ~result.success
       THEN /\ file_result' = [error |-> result.error]
            /\ UNCHANGED file_trace
       ELSE /\ \E order \in SetOrders(participants_of(result.emails)) :
                   \E reply \in AiReplies :
                       file_result' = generate_summary(result.emails, clean_text,
                                                       file_in, order, reply)
            /\ file_trace' = IF /\ "error" \notin DOMAIN file_result'
                                /\ calls_collaborator(file_in, clean_text)
                             THEN Append(file_trace, "collaborator")
                             ELSE file_trace
    /\ file_pc' = "done"
    /\ UNCHANGED <<file_in, file_email_data, file_parsed, pdfVars, msgVars,
                   nonFileVars>>

\* EmailFileProcessor.process_email_file, lines 54-73, called from line 119
\* and from line 412: a missing file is an error record; a .eml file is
\* parsed in place; for a .msg file the native parser is started
ProcessEmailFile ==
    /\ file_pc \in {"call1", "call2"}
    /\ IF ~file_in.exists
       THEN /\ file_parsed' = [error |-> FILE_NOT_FOUND \o file_in.path]
            /\ file_pc' = IF file_pc = "call1" THEN "got1" ELSE "got2"
            /\ UNCHANGED <<file_trace, msgVars>>
       ELSE IF file_extension(file_in) = EXT_EML
       THEN /\ file_parsed' = process_eml_file(file_in.eml)
            /\ file_trace' = Append(file_trace, "mime_parser")
            /\ file_pc' = IF file_pc = "call1" THEN "got1" ELSE "got2"
            /\ UNCHANGED msgVars
       ELSE /\ file_trace' = Append(file_trace, "msg_parser")
            /\ file_pc' = IF file_pc = "call1" THEN "msg1" ELSE "msg2"
            /\ msg_pc' = "start"
            /\ msg_trace' = <<>>
            /\ email_data' = EmptyDict
            /\ msg_result' = NoResult
            /\ UNCHANGED <<msg_in, file_parsed>>
    /\ UNCHANGED <<file_in, file_email_data, file_result, pdfVars, nonFileVars>>

\* _process_msg_file, lines 165-176, without extract_msg: what the native
\* parser returned, an error record as well
ProcessMsgFile ==
    /\ file_pc \in {"msg1", "msg2"}
    /\ msg_pc = "done"
    /\ file_parsed' = msg_result
    /\ file_pc' = IF file_pc = "msg1" THEN "got1" ELSE "got2"
    /\ UNCHANGED <<file_in, file_trace, file_email_data, file_result, pdfVars,
                   msgVars, nonFileVars>>

\* _process_email_file, lines 119-124: an error record is returned as it is;
\* else extract_emails_from_file is called, which parses the file again
CheckEmailData ==
    /\ file_pc = "got1"
    /\ file_email_data' = file_parsed
    /\ IF "error" \in DOMAIN file_parsed
       THEN file_result' = file_parsed /\ file_pc' = "done"
       ELSE file_pc' = "call2" /\ UNCHANGED file_result
    /\ UNCHANGED <<file_in, file_trace, file_parsed, pdfVars, msgVars, nonFileVars>>

\* the text _process_email_file gives to _generate_summary, lines 130-134
RECURSIVE contents_of(_)
contents_of(emails) ==
    IF emails = <<>> THEN <<>>
    ELSE <<emails[1]["content"]>> \o contents_of(Tail(emails))

\* lines 142-143
with_file_format(summary, data) ==
    [file_format       |-> dict_get(data, "format", "unknown"),
     attachments_count |-> Len(dict_get(data, "attachments", <<>>))] @@ summary

\* extract_emails_from_file, lines 414-438, and _process_email_file, lines
\* 126-145: the record of the second parse is summarised
SummarizeEmailFile ==
    /\ file_pc = "got2"
    /\ LET emails == emails_of_result(file_parsed)
           text_given == str_join(contents_of(emails), <<NL, NL>>)
       IN  IF emails = <<>>
           THEN /\ file_result' = [error |-> NO_EMAILS]
                /\ UNCHANGED file_trace
           ELSE /\ \E order \in SetOrders(participants_of(emails)) :
                       \E reply \in AiReplies :
                           file_result' =
                               with_file_format(
                                   generate_summary(emails, text_given, file_in,
                                                    order, reply),
                                   file_email_data)
                /\ file_trace' = IF /\ "error" \notin DOMAIN file_result'
                                    /\ calls_collaborator(file_in, text_given)
                                 THEN Append(file_trace, "collaborator")
                                 ELSE file_trace
    /\ file_pc' = "done"
    /\ UNCHANGED <<file_in, file_email_data, file_parsed, pdfVars, msgVars,
                   nonFileVars>>

(***************************************************************************)
(* app.py: the handler of /api/summarize                                   *)
(*                                                                         *)
(* app.run serves each request in a thread of its own; the handlers share  *)
(* the upload folder.  What summarize_emails_from_file makes of a file is  *)
(* kept as the bytes it read.                                              *)
(***************************************************************************)
\* the requests handled at the same time
MaxRequests == 2

Requests == 1..MaxRequests

\* line 15
UPLOAD_FOLDER == <<"u","p","l","o","a","d","s">>

\* processor.get_supported_formats() of line 35
supported_formats == {EXT_EML, EXT_PDF, EXT_MSG}

\* line 71: the default file
DEFAULT_PATH == <<"e","m","a","i","l">> \o EXT_PDF

\* the names of the files uploaded, as secure_filename gives them
UploadNames == {<<"a">> \o EXT_EML, <<"b">> \o EXT_EML, <<"a">> \o EXT_TXT}

UploadBytes == {<<"x">>, <<"y">>}

NoUpload == [uploaded |-> FALSE, filename |-> <<>>, bytes |-> <<>>]

Uploads ==
    {[uploaded |-> TRUE, filename |-> n, bytes |-> b] :
        n \in UploadNames, b \in UploadBytes} \cup {NoUpload}

\* lines 27-38: the extension after the last dot is one that is supported
allowed_file(filename) ==
    /\ \E i \in DOMAIN filename : filename[i] = "."
    /\ str_lower(path_suffix(filename)) \in supported_formats

\* line 59: os.path.join(app.config["UPLOAD_FOLDER"], filename)
upload_path(filename) == UPLOAD_FOLDER \o <<"/">> \o filename

Paths == {upload_path(n) : n \in UploadNames} \cup {DEFAULT_PATH}

NoFile == {}

\* line 96, as far as the handler is concerned: the summary of the bytes read
\* at the path, or an error record when no file is there
summary_of_file(files, path) ==
    IF files[path] = NoFile
    THEN [error |-> TRUE]
    ELSE [success |-> TRUE, summary_of |-> CHOOSE b \in files[path] : TRUE]

InitWeb ==
    /\ requests \in [Requests -> Uploads]
    /\ disk \in {[p \in Paths |-> IF p = DEFAULT_PATH THEN d ELSE NoFile] :
                     d \in {NoFile, {<<"d">>}}}
    /\ handler_pc = [r \in Requests |-> "start"]
    /\ file_path = [r \in Requests |-> <<>>]
    /\ results = [r \in Requests |-> NoResult]
    /\ responses = [r \in Requests |-> 0]

WebIdle ==
    /\ requests = [r \in Requests |-> NoUpload]
    /\ disk = [p \in Paths |-> NoFile]
    /\ handler_pc = [r \in Requests |-> "off"]
    /\ file_path = [r \in Requests |-> <<>>]
    /\ results = [r \in Requests |-> NoResult]
    /\ responses = [r \in Requests |-> 0]

\* lines 50-86: an allowed upload is saved under its name in the upload
\* folder; an upload of another type is answered with 400; without upload
\* the default file is taken, and 404 is the answer when there is none
ReceiveUpload(r) ==
    /\ handler_pc[r] = "start"
    /\ LET file == requests[r]
       IN  IF file.uploaded /\ allowed_file(file.filename)
           THEN /\ disk' = [disk EXCEPT ![upload_path(file.filename)] = {file.bytes}]
                /\ file_path' = [file_path EXCEPT ![r] = upload_path(file.filename)]
                /\ handler_pc' = [handler_pc EXCEPT ![r] = "saved"]
                /\ UNCHANGED responses
           ELSE IF file.uploaded
           THEN /\ responses' = [responses EXCEPT ![r] = 400]
                /\ handler_pc' = [handler_pc EXCEPT ![r] = "done"]
                /\ UNCHANGED <<disk, file_path>>
           ELSE /\ file_path' = [file_path EXCEPT ![r] = DEFAULT_PATH]
                /\ IF disk[DEFAULT_PATH] = NoFile
                   THEN /\ responses' = [responses EXCEPT ![r] = 404]
                        /\ handler_pc' = [handler_pc EXCEPT ![r] = "done"]
                   ELSE /\ handler_pc' = [handler_pc EXCEPT ![r] = "saved"]
                        /\ UNCHANGED responses
                /\ UNCHANGED disk
    /\ UNCHANGED <<requests, results, nonWebVars>>

\* line 96: the file at file_path is summarised
SummarizeUpload(r) ==
    /\ handler_pc[r] = "saved"
    /\ results' = [results EXCEPT ![r] = summary_of_file(disk, file_path[r])]
    /\ handler_pc' = [handler_pc EXCEPT ![r] = "summarized"]
    /\ UNCHANGED <<requests, disk, file_path, responses, nonWebVars>>

\* lines 99-108: a file in the upload folder is removed, an OSError of
\* os.remove is passed over, and the response is sent
CleanUpAndRespond(r) ==
    /\ handler_pc[r] = "summarized"
    /\ disk' = IF str_startswith(file_path[r], UPLOAD_FOLDER)
               THEN [disk EXCEPT ![file_path[r]] = NoFile]
               ELSE disk
    /\ responses' = [responses EXCEPT
                         ![r] = IF "error" \in DOMAIN results[r] THEN 400 ELSE 200]
    /\ handler_pc' = [handler_pc EXCEPT ![r] = "done"]
    /\ UNCHANGED <<requests, file_path, results, nonWebVars>>

(***************************************************************************)
(* The files given to summarize_emails_from_file                           *)
(***************************************************************************)
\* a page of more than 100 characters, with a date, an amount and a deadline
LONG_TEXT ==
    <<"S","u","b","j","e","c","t",":"," ","B","u","d","g","e","t","\n","F",
      "r","o","m",":"," ","a","@","x",".","c","o","m","\n","T","o",":"," ",
      "b","@","x",".","c","o","m","\n","P","l","e","a","s","e"," ","r","e",
      "v","i","e","w"," ","t","h","e"," ","b","u","d","g","e","t"," ","o","f",
      " ","$","1",",","2","0","0",".","5","0"," ","b","y"," ","1","2","/","0",
      "5","/","2","0","2","4","."," ","I","t"," ","i","s"," ","u","r","g","e",
      "n","t","."," ","W","e"," ","a","g","r","e","e","d"," ","o","n"," ","J",
      "a","n"," ","5",","," ","2","0","2","4"," ","t","o"," ","m","e","e","t",
      " ","o","n"," ","F","r","i","d","a","y",".">>

\* a page with a thread of two emails of two senders, whose From lines have
\* no address, so that the text is split at the reply-quote marker
THREAD_TEXT ==
    <<"F","r","o","m",":"," ","A","n","n","\n","S","u","b","j","e","c","t",
      ":"," ","H","i","\n","f","i","r","s","t","\n","-","-","-","-","-","O",
      "r","i","g","i","n","a","l"," ","M","e","s","s","a","g","e","-","-","-",
      "-","-","\n","F","r","o","m",":"," ","B","o","b","\n","S","u","b","j",
      "e","c","t",":"," ","R","e","\n","s","e","c","o","n","d"," ","i","s",
      " ","d","u","e"," ","b","y"," ","M","o","n","d","a","y","."," ","W","e",
      " ","d","e","c","i","d","e","d"," ","t","o"," ","g","o",".">>

OnePage(txt) == [readable |-> TRUE, pages |-> <<[kind |-> "text", text |-> txt]>>]

MaxFilePages == 2

\* the PDFs given: the generated ones of at most two pages, a file PyPDF2
\* cannot read, and the pages of text above
FileDocs ==
    {d \in GeneratedDocs : Len(d.pages) <= MaxFilePages}
        \cup {UnreadableDoc, ScenarioA, OnePage(LONG_TEXT), OnePage(THREAD_TEXT)}

FilePaths ==
    {<<"a">> \o EXT_PDF, <<"a",".","P","D","F">>, <<"a">> \o EXT_EML,
     <<"a">> \o EXT_MSG, <<"a",".","M","s","g">>, <<"a">> \o EXT_TXT, <<"a">>,
     EXT_PDF, <<"a">> \o EXT_PDF \o <<".","b","a","k">>, <<"a",".">>}

Collaborators == {"unavailable", "no_client", "client"}

ApiKeys == {"none", "valid", "raises"}

\* the parts of the walk: parts of the body, attachments, an embedded PDF
\* whose temporary file cannot be made, an attachment whose payload cannot
\* be read
EmlPart(name) ==
    CASE name = "plain" ->
            [fault |-> "none", content_type |-> TEXT_PLAIN, disposition |-> <<>>,
             filename |-> <<>>,
             payload |-> <<"h","i","xFF">>]
      [] name = "html" ->
            [fault |-> "none", content_type |-> TEXT_HTML, disposition |-> <<>>,
             filename |-> <<>>,
             payload |-> <<"<","b",">","y","o"," "," ","u","<","/","b",">">>]
      [] name = "empty" ->
            [fault |-> "none", content_type |-> TEXT_PLAIN, disposition |-> <<>>,
             filename |-> <<>>,
             payload |-> <<>>]
      [] name = "txt" ->
            [fault |-> "none", content_type |-> TEXT_PLAIN, disposition |-> ATTACHMENT,
             filename |-> <<"n">> \o EXT_TXT, payload |-> <<"n","o","t","e">>]
      [] name = "htm" ->
            [fault |-> "none", content_type |-> TEXT_HTML, disposition |-> ATTACHMENT,
             filename |-> <<"n">> \o EXT_HTM,
             payload |-> <<"<","i",">","o","k">>]
      [] name = "doc" ->
            [fault |-> "none", content_type |-> OCTET_STREAM, disposition |-> ATTACHMENT,
             filename |-> <<"n",".","d","o","c">>, payload |-> <<"xD0","xCF">>]
      [] name = "unnamed" ->
            [fault |-> "none", content_type |-> OCTET_STREAM, disposition |-> ATTACHMENT,
             filename |-> <<>>, payload |-> <<"x">>]
      [] name = "pdf" ->
            [fault |-> "create", content_type |-> APPLICATION_PDF,
             disposition |-> ATTACHMENT, filename |-> <<"n">> \o EXT_PDF,
             payload |-> <<"%","P","D","F">>]
      [] name = "bad" ->
            [fault |-> "payload", content_type |-> TEXT_PLAIN,
             disposition |-> ATTACHMENT, filename |-> <<"b">> \o EXT_TXT,
             payload |-> <<"x">>]
      [] name = "alt" ->
            [fault |-> "none", content_type |-> MULTIPART_ALTERNATIVE,
             disposition |-> ATTACHMENT, filename |-> <<"c">> \o EXT_TXT,
             payload |-> <<>>]

EmlPartNames == {"plain", "html", "empty", "txt", "htm", "doc", "unnamed", "pdf", "bad"}

MaxEmlParts == 2

EmlHeaders(name) ==
    CASE name = "none" -> EmptyDict
      [] name = "from" -> (H_FROM :> <<"a","@","x",".","c","o","m">>)
      [] name = "all"  ->
            (H_SUBJECT :> <<" ","H","i">>)
                @@ (H_FROM :> <<"a","@","x",".","c","o","m">>)
                @@ (H_TO :> <<"b","@","x",".","c","o","m">>)
                @@ (H_CC :> <<"c","@","x",".","c","o","m">>)
                @@ (H_DATE :> <<"1"," ","J","a","n"," ","2","0","2","4">>)
                @@ (H_MESSAGE_ID :> <<"<","1","@","x",">">>)

EmlHeaderNames == {"none", "from", "all"}

NoEml == [fault |-> "none", headers |-> EmptyDict, parts |-> <<>>]

\* the .eml files: every choice of headers with every walk of at most
\* MaxEmlParts parts, and a file that cannot be read
EmlInputs ==
    {[fault |-> "none", headers |-> EmlHeaders(h),
      parts |-> [k \in DOMAIN names |-> EmlPart(names[k])]] :
        h \in EmlHeaderNames,
        names \in UNION {[1..n -> EmlPartNames] : n \in 0..MaxEmlParts}}
        \cup {[fault |-> "open", headers |-> EmptyDict, parts |-> <<>>]}

\* the messages given to _process_eml_file alone: walks of at most MaxWalk
\* nodes after the root, among them containers, which have parts in them
MaxWalk == 3

WalkNodeNames == EmlPartNames \cup {"alt"}

Walks ==
    {names \in UNION {[1..n -> WalkNodeNames] : n \in 0..MaxWalk} :
        names = <<>> \/ names[Len(names)] # "alt"}

WalkInputs ==
    {[fault |-> "none", headers |-> EmlHeaders(h),
      parts |-> [k \in DOMAIN names |-> EmlPart(names[k])]] :
        h \in {"none", "all"}, names \in Walks}

InitEml ==
    /\ eml_in \in WalkInputs
    /\ eml_pc = "ready"
    /\ eml_out = NoResult

EmlIdle ==
    /\ eml_in = NoEml
    /\ eml_pc = "off"
    /\ eml_out = NoResult

\* a call of _process_eml_file
ProcessEmlFile ==
    /\ eml_pc = "ready"
    /\ eml_out' = process_eml_file(eml_in)
    /\ eml_pc' = "done"
    /\ UNCHANGED <<eml_in, nonEmlVars>>

\* the .msg files: the generated files of at most one chunk
FileMsgInputs == {in \in MsgInputs : in.fault # "missing" /\ Len(in.chunks) <= 1}

NoMsg == [fault |-> "missing", sig |-> "none", padded |-> FALSE, chunks |-> <<>>]

IsRouted(in, exts) == in.is_str /\ file_extension(in) \in exts

\* the states of the collaborator other than that of a missing module
WithCollaborator(in) == in.collaborator # "unavailable" \/ in.api_key # "none"

\* the files summarised with every state of the collaborator
SummarizedPaths == {<<"a">> \o EXT_PDF, <<"a">> \o EXT_EML, <<"a">> \o EXT_MSG}

SummarizedDocs == {OnePage(LONG_TEXT), OnePage(THREAD_TEXT)}

SummarizedEml ==
    [fault |-> "none", headers |-> EmlHeaders("all"), parts |-> <<EmlPart("plain")>>]

SummarizedMsg ==
    [fault |-> "none", sig |-> "none", padded |-> FALSE, chunks |-> <<"body">>]

\* a path that is None, a path of an extension that is not supported, a file
\* that is missing, and the files above; the module of the collaborator is
\* missing but for the summarised files, which see every state of it
FileInputs ==
    {in \in [is_str : BOOLEAN, path : FilePaths, exists : BOOLEAN,
             collaborator : Collaborators, api_key : ApiKeys, eml : EmlInputs] :
        /\ ~in.is_str => in.path = <<"a">> /\ ~in.exists
        /\ WithCollaborator(in) => in.path \in SummarizedPaths /\ in.exists
        /\ ~(IsRouted(in, {EXT_EML}) /\ in.exists) => in.eml = NoEml
        /\ WithCollaborator(in) /\ IsRouted(in, {EXT_EML}) => in.eml = SummarizedEml}

\* the call of summarize_emails_from_file has not started
NoFileCall ==
    /\ file_trace = <<>>
    /\ file_email_data = NoResult
    /\ file_parsed = NoResult
    /\ file_result = NoResult

\* the file behind the path: a PDF, a message file, or neither; a file that
\* is missing cannot be read, by PyPDF2 or by convert_from_path
InitFile ==
    /\ file_in \in FileInputs
    /\ file_pc = "start"
    /\ NoFileCall
    /\ IF IsRouted(file_in, {EXT_PDF})
       THEN IF file_in.exists
            THEN PdfInputs(IF WithCollaborator(file_in) THEN SummarizedDocs ELSE FileDocs)
            ELSE PdfInputs({UnreadableDoc}) /\ (ocr_available => ~ocr_in.setup_ok)
       ELSE /\ doc = UnreadableDoc
            /\ ocr_available = FALSE
            /\ max_workers = 1
            /\ ocr_in = OcrDefault(UnreadableDoc)
    /\ NoCall
    /\ pc = "off"
    /\ run = 1
    /\ first_result = {}
    /\ IF IsRouted(file_in, {EXT_MSG}) /\ file_in.exists
       THEN msg_in \in IF WithCollaborator(file_in) THEN {SummarizedMsg} ELSE FileMsgInputs
       ELSE msg_in = NoMsg
    /\ msg_pc = "off"
    /\ NoMsgCall

\* the file at the path given is written by nobody else
RaceIdle == replacements = 0

FileIdle ==
    /\ file_in = [is_str |-> FALSE, path |-> <<"a">>, exists |-> FALSE,
                  collaborator |-> "unavailable", api_key |-> "none", eml |-> NoEml]
    /\ file_pc = "off"
    /\ NoFileCall

(***************************************************************************)
(* The specifications                                                      *)
(***************************************************************************)
Init ==
    InitPdf /\ SplitIdle /\ MsgIdle /\ CleanIdle /\ WorkersIdle /\ AttIdle /\ FileIdle /\ DetIdle /\ WebIdle /\ RaceIdle /\ EmlIdle

Next ==
    \/ OpenPdf
    \/ \E i \in Tasks : StartPageTask(i)
    \/ \E i \in Tasks : FinishPageTask(i)
    \/ \E i \in Tasks : CollectPage(i)
    \/ JoinPages
    \/ CheckText
    \/ HandleError
    \/ OcrBegin
    \/ \E i \in Tasks : StartOcrTask(i)
    \/ \E i \in Tasks : FinishOcrTask(i)
    \/ \E i \in Tasks : CollectOcr(i)
    \/ JoinOcr
    \/ ProcessText

Spec == Init /\ [][Next]_vars

\* the pipeline is run a second time on the same input
RunAgain ==
    /\ pc = "done"
    /\ run = 1
    /\ run' = 2
    /\ first_result' = {result}
    /\ pc' = "open"
    /\ ocr_site' = "none"
    /\ task' = <<>>
    /\ future' = <<>>
    /\ yielded' = {}
    /\ yield_order' = <<>>
    /\ page_texts' = <<>>
    /\ text' = <<>>
    /\ parallel_ret' = {}
    /\ ocr_ret' = {}
    /\ ocr_calls' = 0
    /\ raw_text' = <<>>
    /\ clean_text' = <<>>
    /\ result' = ErrorResult(<<>>)
    /\ UNCHANGED <<pdfIn, nonPdfVars>>

SpecTwice == Init /\ [][Next \/ RunAgain]_vars

InitSplit ==
    /\ chunks_in \in SplitInputs
    /\ split_pc = "ready"
    /\ emails_out = <<>>
    /\ PdfIdle
    /\ MsgIdle
    /\ CleanIdle
    /\ WorkersIdle
    /\ AttIdle
    /\ FileIdle
    /\ DetIdle /\ WebIdle /\ RaceIdle /\ EmlIdle

SplitThreads ==
    /\ split_pc = "ready"
    /\ emails_out' = split_email_threads(Flatten(chunks_in))
    /\ split_pc' = "done"
    /\ UNCHANGED <<chunks_in, nonSplitVars>>

NextSplit == SplitThreads

SpecSplit == InitSplit /\ [][NextSplit]_vars

InitMsgSpec ==
    InitMsg /\ PdfIdle /\ SplitIdle /\ CleanIdle /\ WorkersIdle /\ AttIdle /\ FileIdle /\ DetIdle /\ WebIdle /\ RaceIdle /\ EmlIdle

NextMsg ==
    \/ ParseMsgFile
    \/ ParseMsgStream
    \/ ParseCompoundDocument
    \/ FallbackTextExtraction

SpecMsg == InitMsgSpec /\ [][NextMsg]_vars

InitDetectSpec ==
    InitDetect /\ PdfIdle /\ SplitIdle /\ MsgIdle /\ CleanIdle /\ WorkersIdle
        /\ AttIdle /\ FileIdle /\ EmlIdle /\ RaceIdle /\ WebIdle

NextDetect == DetectAttachments

SpecDetect == InitDetectSpec /\ [][NextDetect]_vars

InitEmlSpec ==
    InitEml /\ PdfIdle /\ SplitIdle /\ MsgIdle /\ CleanIdle /\ WorkersIdle
        /\ AttIdle /\ FileIdle /\ DetIdle /\ WebIdle /\ RaceIdle

NextEml == ProcessEmlFile

SpecEml == InitEmlSpec /\ [][NextEml]_vars

InitWebSpec ==
    InitWeb /\ PdfIdle /\ SplitIdle /\ MsgIdle /\ CleanIdle /\ WorkersIdle
        /\ AttIdle /\ FileIdle /\ DetIdle /\ EmlIdle /\ RaceIdle

NextWeb ==
    \/ \E r \in Requests : ReceiveUpload(r)
    \/ \E r \in Requests : SummarizeUpload(r)
    \/ \E r \in Requests : CleanUpAndRespond(r)

SpecWeb == InitWebSpec /\ [][NextWeb]_vars

InitCleanSpec ==
    InitClean /\ PdfIdle /\ SplitIdle /\ MsgIdle /\ WorkersIdle /\ AttIdle /\ FileIdle /\ DetIdle /\ WebIdle /\ RaceIdle /\ EmlIdle

NextClean == CleanText

SpecClean == InitCleanSpec /\ [][NextClean]_vars

InitWorkersSpec ==
    InitWorkers /\ PdfCallIdle /\ SplitIdle /\ MsgIdle /\ CleanIdle /\ AttIdle /\ FileIdle /\ DetIdle /\ WebIdle /\ RaceIdle /\ EmlIdle

NextWorkers ==
    \/ Construct
    \/ \E n \in 0..MaxConfigured : SetMaxWorkers(n)
    \/ OpenPool

SpecWorkers == InitWorkersSpec /\ [][NextWorkers]_vars

InitAttachSpec ==
    InitAttach /\ SplitIdle /\ MsgIdle /\ CleanIdle /\ WorkersIdle /\ FileIdle /\ DetIdle /\ WebIdle /\ RaceIdle /\ EmlIdle

\* the extraction of one attachment, with the nested extract_text_from_pdf
NextAttach ==
    \/ AttachStart
    \/ AttachWrite
    \/ AttachExtract
    \/ AttachReturn
    \/ OpenPdf
    \/ \E i \in Tasks : StartPageTask(i)
    \/ \E i \in Tasks : FinishPageTask(i)
    \/ \E i \in Tasks : CollectPage(i)
    \/ JoinPages
    \/ CheckText
    \/ HandleError
    \/ OcrBegin
    \/ \E i \in Tasks : StartOcrTask(i)
    \/ \E i \in Tasks : FinishOcrTask(i)
    \/ \E i \in Tasks : CollectOcr(i)
    \/ JoinOcr

SpecAttach == InitAttachSpec /\ [][NextAttach]_vars

InitFileSpec == InitFile /\ SplitIdle /\ CleanIdle /\ WorkersIdle /\ AttIdle /\ DetIdle /\ WebIdle /\ RaceIdle /\ EmlIdle

\* one call of summarize_emails_from_file, with the extraction of the PDF
\* and the parse of the message file it starts
NextFile ==
    \/ Route
    \/ OpenPdf
    \/ \E i \in Tasks : StartPageTask(i)
    \/ \E i \in Tasks : FinishPageTask(i)
    \/ \E i \in Tasks : CollectPage(i)
    \/ JoinPages
    \/ CheckText
    \/ HandleError
    \/ OcrBegin
    \/ \E i \in Tasks : StartOcrTask(i)
    \/ \E i \in Tasks : FinishOcrTask(i)
    \/ \E i \in Tasks : CollectOcr(i)
    \/ JoinOcr
    \/ ProcessText
    \/ SummarizePdf
    \/ ProcessEmailFile
    \/ ParseMsgFile
    \/ ParseMsgStream
    \/ ParseCompoundDocument
    \/ FallbackTextExtraction
    \/ ProcessMsgFile
    \/ CheckEmailData
    \/ SummarizeEmailFile

SpecFile == InitFileSpec /\ [][NextFile]_vars

\* how often another actor writes the file during one call
MaxReplacements == 1

\* what another actor puts in the place of the file
REPLACEMENT_EML ==
    [fault |-> "none", headers |-> EmlHeaders("from"),
     parts |-> <<EmlPart("html"), EmlPart("txt")>>]

REPLACEMENT_MSG ==
    [fault |-> "none", sig |-> "none", padded |-> FALSE, chunks |-> <<"subject">>]

\* another actor replaces the file at the path while the call is in progress
\* and neither parse is reading it
ReplaceFile ==
    /\ file_pc \in {"call1", "got1", "call2", "got2"}
    /\ replacements < MaxReplacements
    /\ replacements' = replacements + 1
    /\ IF file_extension(file_in) = EXT_EML
       THEN /\ file_in' = [file_in EXCEPT !.exists = TRUE, !.eml = REPLACEMENT_EML]
            /\ UNCHANGED msg_in
       ELSE /\ file_in' = [file_in EXCEPT !.exists = TRUE]
            /\ msg_in' = REPLACEMENT_MSG
    /\ UNCHANGED <<file_pc, file_trace, file_email_data, file_parsed, file_result,
                   msg_pc, msg_trace, email_data, msg_result, pdfVars, splitVars,
                   cleanVars, workerVars, attVars, detVars, emlVars, webVars>>

\* another actor removes the file
RemoveFile ==
    /\ file_pc \in {"call1", "got1", "call2", "got2"}
    /\ replacements < MaxReplacements
    /\ replacements' = replacements + 1
    /\ file_in.exists
    /\ file_in' = [file_in EXCEPT !.exists = FALSE]
    /\ UNCHANGED <<file_pc, file_trace, file_email_data, file_parsed, file_result,
                   msgVars, pdfVars, splitVars, cleanVars, workerVars, attVars,
                   detVars, emlVars, webVars>>

\* a call of summarize_emails_from_file on a .eml or .msg file that exists,
\* with nothing known of the summarization collaborator
InitRace ==
    /\ InitFileSpec
    /\ IsRouted(file_in, {EXT_EML, EXT_MSG})
    /\ file_in.exists
    /\ ~WithCollaborator(file_in)

NextRace ==
    \/ Route
    \/ ProcessEmailFile
    \/ ProcessMsgFile
    \/ ParseMsgFile
    \/ ParseMsgStream
    \/ ParseCompoundDocument
    \/ FallbackTextExtraction
    \/ CheckEmailData
    \/ SummarizeEmailFile
    \/ ReplaceFile
    \/ RemoveFile

SpecRace == InitRace /\ [][NextRace]_vars

(***************************************************************************)
(* The page extractor and the OCR stage: C1, C2, C3                        *)
(***************************************************************************)
\* the pages extracted strictly one after another: the text of each page with
\* a newline, nothing for a page whose extraction fails
RECURSIVE SequentialPageTexts(_)
SequentialPageTexts(pages) ==
    IF pages = <<>> THEN <<>>
    ELSE <<IF pages[1].kind = "fail" THEN <<>> ELSE pages[1].text \o <<NL>>>>
             \o SequentialPageTexts(Tail(pages))

\* C1: whatever the pool size and the order in which the page tasks complete,
\* the text _extract_pages_parallel returns is the page texts joined in page
\* order, as a sequential extraction gives them.
C1_PagesJoinedInPageOrder ==
    \A t \in parallel_ret : t = str_join_lines(SequentialPageTexts(doc.pages))

\* C1's case: two pages with text, the second yielded before the first
C1_Witness ==
    /\ pc = "check"
    /\ parallel_ret # {}
    /\ Len(yield_order) >= 2
    /\ yield_order[1] = 2
    /\ doc.pages[1].text # <<>>
    /\ doc.pages[2].text # <<>>

\* the images recognised strictly one after another
RECURSIVE SequentialOcrText(_)
SequentialOcrText(images) ==
    IF images = <<>> THEN <<>>
    ELSE (IF images[1].kind = "fail" THEN <<>> ELSE images[1].text \o <<NL>>)
             \o SequentialOcrText(Tail(images))

\* C2: whatever the pool size and the order in which the recognition tasks
\* complete, the text _extract_text_with_ocr returns is the recognised page
\* texts in page-number order.
C2_OcrTextInPageOrder ==
    \A t \in ocr_ret : t = str_strip(SequentialOcrText(ocr_in.images))

\* what the slot of page i holds once its task is through
ExpectedSlot(i) ==
    IF doc.pages[i].kind = "fail" THEN <<>> ELSE doc.pages[i].text \o <<NL>>

\* a step of the multi-page extraction
PagesStep ==
    \/ \E i \in Tasks : StartPageTask(i)
    \/ \E i \in Tasks : FinishPageTask(i)
    \/ \E i \in Tasks : CollectPage(i)
    \/ JoinPages

\* C3: a page whose extraction fails contributes the empty string, every other
\* page contributes its own text at its own position, and the multi-page
\* extraction goes on to its join: it is never left without a next step.
C3_FailedPageIsolated ==
    /\ pc = "pages" => ENABLED PagesStep
    /\ pc = "pages" => \A i \in yielded : page_texts[i] = ExpectedSlot(i)
    /\ parallel_ret # {} =>
          /\ Len(page_texts) = Len(doc.pages)
          /\ \A i \in 1..Len(doc.pages) : page_texts[i] = ExpectedSlot(i)

\* C3's case: the first page failed and was collected first, a later page
\* has its text in the joined result
C3_Witness ==
    /\ parallel_ret # {}
    /\ pc = "check"
    /\ doc.pages[1].kind = "fail"
    /\ yield_order[1] = 1
    /\ doc.pages[2].kind = "text"
    /\ page_texts[2] = PageText(2) \o <<NL>>

(***************************************************************************)
(* The legacy message parser: C4, C5, C6                                   *)
(***************************************************************************)
\* the first 8 bytes of the file are the magic signature
HasSignature ==
    /\ Len(MsgBytes(msg_in)) >= SIGNATURE_SIZE
    /\ \A i \in 1..SIGNATURE_SIZE : MsgBytes(msg_in)[i] = MSG_SIGNATURE[i]

TierRan(tier) == \E i \in DOMAIN msg_trace : msg_trace[i] = tier

\* C4: for a file whose first 8 bytes differ from the magic signature the
\* Tier 2 structured parse never runs: after the signature check comes the
\* Tier 3 fallback and nothing else.
C4_NoTier2OnMismatch ==
    ~HasSignature =>
        /\ ~TierRan("tier2")
        /\ msg_pc # "tier2"
        /\ Len(msg_trace) >= 2 => msg_trace = <<"tier1", "tier3">>
        /\ (msg_pc = "done" /\ msg_trace # <<>>) => msg_trace = <<"tier1", "tier3">>

\* C4's case: a file with a full header whose signature is wrong in its last
\* byte only went through the fallback
C4_Witness ==
    /\ msg_pc = "done"
    /\ msg_in.sig = "near"
    /\ msg_in.padded
    /\ msg_in.fault = "none"
    /\ msg_trace = <<"tier1", "tier3">>
    /\ "parsing_method" \in DOMAIN msg_result

\* the result is the one Tier 2 builds
IsStructuredResult(r) == "format" \in DOMAIN r /\ "parsing_method" \notin DOMAIN r

\* the result is one Tier 3 returns: its result structure or its error record
IsFallbackOutcome(r) ==
    \/ "parsing_method" \in DOMAIN r /\ r.parsing_method = "fallback_text_extraction"
    \/ "error" \in DOMAIN r /\ r.error \in {NO_READABLE_TEXT, MSG_EXTRACT_FAILED}

\* Tier 2 found no field with a value, or raised
Tier2GaveNothing ==
    \/ msg_in.fault \in {"tier2_read", "tier2_raise"}
    \/ \A k \in DOMAIN email_data : email_data[k] = <<>>

\* C5: with a matching signature, when Tier 2 yields no non-empty field or
\* raises, Tier 3 runs and what it returns is what parse_msg_file returns; a
\* Tier 2 result is returned only with at least one non-empty mapped field.
C5_FallThroughToTier3 ==
    (msg_pc = "done" /\ HasSignature /\ TierRan("tier1")) =>
        /\ Tier2GaveNothing =>
              /\ msg_trace = <<"tier1", "tier2", "tier3">>
              /\ IsFallbackOutcome(msg_result)
        /\ IsStructuredResult(msg_result) =>
              /\ msg_trace = <<"tier1", "tier2">>
              /\ \/ msg_result.subject # <<>>
                 \/ msg_result.from # <<>>
                 \/ msg_result.sender_name # <<>>
                 \/ msg_result.to # <<>>
                 \/ msg_result.content # <<>>

\* C5's case: Tier 2 found a subject, but an empty one, and Tier 3 gave the
\* result
C5_Witness ==
    /\ msg_pc = "done"
    /\ HasSignature
    /\ msg_in.fault = "none"
    /\ DOMAIN email_data = {"subject"}
    /\ email_data["subject"] = <<>>
    /\ msg_trace = <<"tier1", "tier2", "tier3">>
    /\ "parsing_method" \in DOMAIN msg_result

\* the file exists, and it is opened and read without an error
FileReadable == msg_in.fault \notin {"missing", "open", "reopen"}

BlankInEveryEncoding ==
    \A k \in 1..Len(Encodings) :
        \A i \in 1..Len(decode(MsgBytes(msg_in), Encodings[k])) :
            IsSpace(decode(MsgBytes(msg_in), Encodings[k])[i])

C7_SameRecordsOnRerun ==
    (run = 2 /\ pc = "done") => \A r \in first_result : r.emails = result.emails

HI == <<"H","i">>

A_AT_X == <<"a","@","x",".","c","o","m">>

B_AT_X == <<"b","@","x",".","c","o","m">>

\* C8: the single-page PDF of scenario A gives exactly one email record, with
\* subject "Hi", from "a@x.com" and to "b@x.com".
C8_ScenarioAOneRecord ==
    (doc = ScenarioA /\ pc = "done") =>
        /\ result.success
        /\ Len(result.emails) = 1
        /\ result.emails[1].subject = HI
        /\ result.emails[1].from = A_AT_X
        /\ result.emails[1].to = B_AT_X

\* C9: the 5-page PDF of scenario B gives the 5 lines "Page N content" in page
\* order as its extracted and normalized text.
C9_ScenarioBFiveLines ==
    (doc = ScenarioB /\ pc = "done") =>
        clean_text = str_join_lines([i \in ScenarioBPages |-> ScenarioBLine(i)])

(***************************************************************************)
(* The thread splitter: C10                                                *)
(***************************************************************************)
MarkerPositions == {i \in DOMAIN chunks_in : chunks_in[i] = "marker"}

\* the text holds the reply-quote marker once and no sender-header line
OneMarkerInput ==
    /\ Cardinality(MarkerPositions) = 1
    /\ \A i \in DOMAIN chunks_in : chunks_in[i] \notin {"from", "from2"}

BeforeMarker == Flatten(SubSeq(chunks_in, 1, SetMin(MarkerPositions) - 1))

AfterMarker ==
    Flatten(SubSeq(chunks_in, SetMin(MarkerPositions) + 1, Len(chunks_in)))

\* C10, as claimed: wherever the one marker stands, the splitter yields
\* exactly 2 segments and the second one retains the marker.
C10_AlwaysTwoSegments ==
    (split_pc = "done" /\ OneMarkerInput) =>
        /\ Len(emails_out) = 2
        /\ str_startswith(emails_out[2].content, MARKER)

\* C10, amended: with text on both sides of the one marker the splitter yields
\* exactly 2 segments, the text before the marker and the marker with the text
\* after it; with blank text before or after the marker it yields 1 segment:
\* the marker with the text after it, or the text before it without the marker.
C10_TwoSegmentsBetweenText ==
    (split_pc = "done" /\ OneMarkerInput) =>
        IF str_strip(BeforeMarker) # <<>> /\ str_strip(AfterMarker) # <<>>
        THEN /\ Len(emails_out) = 2
             /\ emails_out[1].content = str_strip(BeforeMarker)
             /\ emails_out[2].content = str_strip(MARKER \o AfterMarker)
        ELSE /\ Len(emails_out) = 1
             /\ str_strip(AfterMarker) # <<>> =>
                   emails_out[1].content = str_strip(MARKER \o AfterMarker)
             /\ str_strip(BeforeMarker) # <<>> =>
                   emails_out[1].content = str_strip(BeforeMarker)

\* C10's case: text, the marker, text
C10_Witness ==
    /\ split_pc = "done"
    /\ OneMarkerInput
    /\ str_strip(BeforeMarker) # <<>>
    /\ str_strip(AfterMarker) # <<>>
    /\ Len(emails_out) = 2

(***************************************************************************)
(* The text normalizer: C11                                                *)
(***************************************************************************)
\* a "Page N" marker: the word Page, a space and a number
IsPageMarker(line) ==
    /\ Len(line) > Len(PAGE_PREFIX)
    /\ str_startswith(line, PAGE_PREFIX)
    /\ \A i \in (Len(PAGE_PREFIX) + 1)..Len(line) : line[i] \in Digits

\* the lines the normalizer is to retain: not blank, not a pure digit
\* sequence, not a page marker, and of 4 characters or more
IsContentLine(line) ==
    /\ line # <<>>
    /\ ~(\A i \in 1..Len(line) : line[i] \in Digits)
    /\ ~IsPageMarker(line)
    /\ Len(line) >= 4

\* C11: clean_email_text drops every line that, trimmed, is a pure digit
\* sequence, a "Page N" marker or shorter than 4 characters, and retains every
\* other non-blank line, the retained lines in their original order.
C11_DropsOnlyNoiseLines ==
    clean_pc = "done" =>
        clean_out = str_join_lines(SelectSeq(StrippedLines(FlattenClean(clean_in)),
                                             IsContentLine))

(***************************************************************************)
(* The OCR retry: C20                                                      *)
(***************************************************************************)
\* C20: within one call of extract_text_from_pdf the OCR stage is invoked at
\* most once; a failure of the OCR attempt made for blank text does not lead
\* to a second attempt.
C20_OcrAtMostOnce == ocr_calls <= 1

(***************************************************************************)
(* The worker count: C17                                                   *)
(***************************************************************************)
Min3(a, b, c) == Min2(a, Min2(b, c))

\* C17: the size of the pool opened for a multi-page extraction is the least
\* of the configured count, the hardware-concurrency hint and 8, whether the
\* count (1 or more) was given at construction or set later with
\* set_max_workers.
C17_PoolSizeIsMinOfThree ==
    \A size \in pool_size : \A n \in configured :
        n >= 1 => size = Min3(n, cpu_count, HARD_CEILING)

(***************************************************************************)
(* The temporary file of an embedded PDF: C16                              *)
(***************************************************************************)
\* C16: when _extract_text_from_attachment has returned for an embedded PDF,
\* its temporary file is gone, whether the extraction went through, the
\* nested extraction failed, or the bytes could not be written to the file.
C16_TempFileGoneOnReturn ==
    (att_pc = "done" /\ IsPdfName(att_in.filename)) => ~tmp_exists


(***************************************************************************)
(* The route of a file                                                     *)
(***************************************************************************)
SupportedExtensions == {EXT_PDF, EXT_EML, EXT_MSG}

\* the path is a string whose suffix, in lower case, is not supported
HasUnsupportedExtension ==
    file_in.is_str /\ str_lower(path_suffix(file_in.path)) \notin SupportedExtensions

IsErrorRecord(r) ==
    /\ "error" \in DOMAIN r
    /\ r.error # <<>>
    /\ "success" \notin DOMAIN r
    /\ "emails" \notin DOMAIN r

\* C13: for a path whose extension, compared without regard to case, is
\* none of .pdf, .eml and .msg, no extractor is ever called (not the PDF
\* extractor, not the MIME parser, not the message parser), and the call
\* returns an error record that names the unsupported format
C13_UnsupportedFormatNoExtractor ==
    HasUnsupportedExtension =>
        /\ file_trace = <<>>
        /\ pc = "off"
        /\ msg_pc = "off"
        /\ file_pc = "done" =>
               /\ IsErrorRecord(file_result)
               /\ str_startswith(file_result.error, UNSUPPORTED)

C13_Witness ==
    /\ file_pc = "done"
    /\ HasUnsupportedExtension
    /\ file_in.path = <<"a">> \o EXT_PDF \o <<".","b","a","k">>
    /\ str_startswith(file_result.error, UNSUPPORTED)

(***************************************************************************)
(* A PDF without text and without OCR: C12                                 *)
(***************************************************************************)
IMAGE_BASED == <<"i","m","a","g","e","-","b","a","s","e","d"," ","P","D","F">>

\* the file is an existing PDF that PyPDF2 reads and whose pages give no text
\* that is not blank, and the OCR libraries cannot be imported
IsTextlessPdfWithoutOcr ==
    /\ IsRouted(file_in, {EXT_PDF})
    /\ file_in.exists
    /\ doc.readable
    /\ ~HasText(doc)
    /\ ~ocr_available

\* C12: for a PDF whose pages yield no extractable text, with no OCR backend
\* available, summarize_emails_from_file returns an error record, without
\* success flag and without email records, whose message contains
\* "image-based PDF"; the OCR stage is not run
C12_TextlessPdfIsImageBasedError ==
    IsTextlessPdfWithoutOcr =>
        /\ ocr_calls = 0
        /\ file_pc = "done" =>
               /\ IsErrorRecord(file_result)
               /\ str_contains(file_result.error, IMAGE_BASED)

C12_Witness ==
    /\ file_pc = "done"
    /\ IsTextlessPdfWithoutOcr
    /\ Len(doc.pages) = 2
    /\ file_trace = <<"pdf_extractor">>
    /\ str_contains(file_result.error, IMAGE_BASED)

(***************************************************************************)
(* No fault leaves summarize_emails_from_file: C14                         *)
(***************************************************************************)
IsSuccessRecord(r) ==
    /\ "success" \in DOMAIN r
    /\ r.success = TRUE
    /\ "error" \notin DOMAIN r
    /\ "summary" \in DOMAIN r
    /\ "emails" \in DOMAIN r

\* something went wrong in the call: the path is None, the file is missing
\* or cannot be read, or making the summarizer raises
HasFault ==
    \/ ~file_in.is_str
    \/ ~file_in.exists
    \/ file_in.eml.fault # "none"
    \/ (IsRouted(file_in, {EXT_PDF}) /\ ~doc.readable)
    \/ (IsRouted(file_in, {EXT_MSG}) /\ msg_in.fault # "none")
    \/ file_in.api_key = "raises"

\* C14: whatever the path, the content of the file and the stage that fails
\* (extraction, parsing, summarization), what summarize_emails_from_file
\* returns is a success record or an error record with a message: no fault
\* leaves the call
C14_NoFaultEscapes ==
    file_pc = "done" => IsSuccessRecord(file_result) \/ IsErrorRecord(file_result)

C14_Witness ==
    /\ file_pc = "done"
    /\ HasFault
    /\ file_in.api_key = "raises"
    /\ file_trace = <<"mime_parser", "mime_parser">>
    /\ IsErrorRecord(file_result)
    /\ file_result.error = SUMMARY_FAILED

(***************************************************************************)
(* A file that does not exist: C15                                         *)
(***************************************************************************)
\* the path has a supported extension and there is no file behind it
IsMissingSupportedFile == IsRouted(file_in, SupportedExtensions) /\ ~file_in.exists

\* an extraction stage has started: the page extraction or the OCR stage of
\* a PDF, or one of the parsers
ExtractionStarted ==
    \/ ocr_calls > 0
    \/ pc \in {"pages", "ocr_begin", "ocr"}
    \/ \E i \in DOMAIN file_trace : file_trace[i] \in {"mime_parser", "msg_parser"}

\* C15: for each of .pdf, .eml and .msg, when the file does not exist the
\* call returns a file-not-found error record at once: no extraction stage
\* (page extraction, OCR, parsing) is started before it returns
C15_MissingFileNotFoundAtOnce ==
    IsMissingSupportedFile =>
        /\ ~ExtractionStarted
        /\ file_pc = "done" =>
               /\ IsErrorRecord(file_result)
               /\ str_startswith(file_result.error, FILE_NOT_FOUND)

(***************************************************************************)
(* The fields of the email records: C18                                    *)
(***************************************************************************)
HeaderFields == {"subject", "from", "to", "date"}

\* the header of a .eml file a field is read from
FieldHeader(f) ==
    CASE f = "subject" -> H_SUBJECT
      [] f = "from"    -> H_FROM
      [] f = "to"      -> H_TO
      [] f = "date"    -> H_DATE

\* the labels a field is read after in the text of a PDF
FieldLabels(f) ==
    CASE f = "subject" -> {L_subject}
      [] f = "from"    -> {L_from}
      [] f = "to"      -> {L_to}
      [] f = "date"    -> {L_date, L_sent, L_received}

\* the chunks of a message file that name a field
FieldChunks(f) ==
    CASE f = "subject" -> {"subject", "subject_only"}
      [] f = "from"    -> {"from", "from_name", "angle"}
      [] f = "to"      -> {"to"}
      [] f = "date"    -> {}

\* the input has nothing the field f of the record e could be read from: no
\* label of it in the text of the record (PDF), no header of it (.eml), no
\* line of it in the file (.msg)
CouldNotBeFound(f, e) ==
    IF IsRouted(file_in, {EXT_PDF})
    THEN \A l \in FieldLabels(f) : ~str_contains(str_lower(e["content"]), l)
    ELSE IF IsRouted(file_in, {EXT_EML})
    THEN FieldHeader(f) \notin DOMAIN file_in.eml.headers
    ELSE \A i \in DOMAIN msg_in.chunks : msg_in.chunks[i] \notin FieldChunks(f)

\* C18: in every email record of the returned record, whatever the format of
\* the file (PDF, .eml, .msg), each header field that could not be found
\* holds "Not found", and the record has a content, which is a string
C18_MissingFieldsAreNotFound ==
    (file_pc = "done" /\ IsSuccessRecord(file_result)) =>
        \A k \in DOMAIN file_result.emails :
            LET e == file_result.emails[k]
            IN  /\ "content" \in DOMAIN e
                /\ DOMAIN e["content"] = 1..Len(e["content"])
                /\ \A f \in HeaderFields : CouldNotBeFound(f, e) => e[f] = NOT_FOUND

(***************************************************************************)
(* The summary without the collaborator: C19                               *)
(***************************************************************************)
\* the call has come to _generate_summary with the records of the file
SummaryReached ==
    /\ file_pc = "done"
    /\ IF IsRouted(file_in, {EXT_PDF})
       THEN pc = "done" /\ result.success
       ELSE /\ IsRouted(file_in, {EXT_EML, EXT_MSG})
            /\ file_email_data # NoResult
            /\ "error" \notin DOMAIN file_email_data
            /\ "error" \notin DOMAIN file_parsed

\* C19: when the summarizer has no client, the call still returns a success
\* record, the collaborator is never called, and the summary is the text
\* _generate_basic_summary makes of the sequence of records alone: the same
\* text in whichever order the process iterates its set of participants, so
\* that two runs on the same records give the same summary
C19_FallbackSummaryIsDeterministic ==
    (SummaryReached /\ ~has_client(file_in)) =>
        /\ IsSuccessRecord(file_result)
        /\ \A i \in DOMAIN file_trace : file_trace[i] # "collaborator"
        /\ \A order \in SetOrders(participants_of(file_result.emails)) :
               file_result.summary = generate_basic_summary(file_result.emails, order)

(***************************************************************************)
(* The results buffer of the multi-page extraction: C21                    *)
(***************************************************************************)
\* C21: during a multi-page extraction the results buffer has one slot per
\* page; the slot of a page whose future was not yet yielded is as it was
\* made, and a step that writes the buffer writes one slot, that of the page
\* whose future is yielded in that step, with the text of that page (empty
\* when its extraction failed): no slot is written twice or for another page
C21_SlotWrittenOnceAtOwnIndex ==
    [][pc = "pages" =>
          /\ Len(page_texts) = Len(doc.pages)
          /\ \A i \in Tasks \ yielded : page_texts[i] = <<>>
          /\ \/ yielded' = yielded /\ page_texts' = page_texts
             \/ \E i \in Tasks \ yielded :
                    /\ yielded' = yielded \cup {i}
                    /\ page_texts' = [page_texts EXCEPT ![i] = ExpectedSlot(i)]]_vars

\* C21's case: of three pages the last was collected first and the first
\* next; the second, which has text, has its slot not yet written
C21_Witness ==
    /\ pc = "pages"
    /\ Len(doc.pages) = 3
    /\ yield_order = <<3, 1>>
    /\ doc.pages[2].kind = "text"
    /\ page_texts[2] = <<>>
    /\ page_texts[3] = ExpectedSlot(3)
    /\ page_texts[3] # <<>>

(***************************************************************************)
(* The order of the separators: C22                                        *)
(***************************************************************************)
\* the separators that match somewhere in the text
MatchingSeparators(txt) ==
    {k \in Separators :
        \E i \in 1..Len(txt) : SeparatorMatchLen(k, str_lower(txt), i) > 0}

\* the records of the text split at the matches of separator k alone; the
\* whole text as one record when every part is blank
RecordsSplitAt(k, txt) ==
    LET records == thread_records(re_split(k, txt), re_search_group0(k, txt), 1)
    IN  IF records = <<>> THEN <<extract_email_info(txt)>> ELSE records

\* C22: the separators are tried in their fixed order (sender-header line,
\* reply-quote marker, long divider, "wrote:" marker, forwarded-message
\* marker): the records are those of the text split at the first separator
\* that matches, and at no later one; a text no separator matches is
\* returned whole as a single record
C22_FirstSeparatorWins ==
    split_pc = "done" =>
        LET txt == Flatten(chunks_in)
        IN  IF MatchingSeparators(txt) = {}
            THEN emails_out = <<extract_email_info(txt)>>
            ELSE emails_out = RecordsSplitAt(SetMin(MatchingSeparators(txt)), txt)

\* C22's case: the text has a "wrote:" marker, then a long divider, then a
\* forwarded-message marker; it is split at the divider alone
C22_Witness ==
    /\ split_pc = "done"
    /\ chunks_in = <<"wrote", "div", "fwd">>
    /\ MatchingSeparators(Flatten(chunks_in)) = {3, 4, 5}
    /\ Len(emails_out) = 2
    /\ emails_out[1].content = WROTE_LINE
    /\ emails_out[2].content = DIVIDER \o FORWARDED_LINE

(***************************************************************************)
(* The separator given back to a segment: C23                              *)
(***************************************************************************)
\* the texts of the successive matches of separator k in s, from pos on
RECURSIVE re_matches_from(_, _, _, _)
re_matches_from(k, s, ls, pos) ==
    LET i == SeparatorSearch(k, ls, pos)
    IN  IF i = 0
        THEN <<>>
        ELSE <<SubSeq(s, i, i + SeparatorMatchLen(k, ls, i) - 1)>>
                 \o re_matches_from(k, s, ls, i + SeparatorMatchLen(k, ls, i))

\* the parts of the split that give a record, in order
KeptParts(parts) == SelectSeq([i \in DOMAIN parts |-> i], LAMBDA i : str_strip(parts[i]) # <<>>)

\* C23: every segment but the first is prefixed with the separator text that
\* was matched right before it: with several different matches of the
\* winning separator, each segment has its own match, not the first one
C23_SegmentHasItsOwnSeparator ==
    (split_pc = "done" /\ winning_separator(Flatten(chunks_in)) # 0) =>
        LET txt     == Flatten(chunks_in)
            k       == winning_separator(txt)
            parts   == re_split(k, txt)
            matches == re_matches_from(k, txt, str_lower(txt), 1)
            kept    == KeptParts(parts)
        IN  kept # <<>> =>
                /\ Len(emails_out) = Len(kept)
                /\ \A j \in DOMAIN kept :
                       emails_out[j].content =
                           str_strip(IF kept[j] > 1
                                     THEN matches[kept[j] - 1] \o parts[kept[j]]
                                     ELSE parts[kept[j]])


\* ---------------------------------------------------------------------
\* C24: a result of a legacy message parse that is not an error carries the
\* attachments, and the attachment contents, that the detection finds in
\* the whole file, whichever tier produced the fields of the result.
\* ---------------------------------------------------------------------
DetectionsOf(content) ==
    {detect_attachments(content, order) :
         order \in SetOrders(potential_files(detection_text(content)))}

C24_DetectionWhicheverTier ==
    (msg_pc = "done" /\ "error" \notin DOMAIN msg_result)
        => \E detected \in DetectionsOf(MsgBytes(msg_in)) :
               /\ msg_result.attachments = detected.attachments
               /\ msg_result.attachment_contents = detected.attachment_contents


\* ---------------------------------------------------------------------
\* C25: _detect_attachments records candidate attachment content exactly
\* when the buffer has a contiguous run of at least 5 body-like lines with
\* more than 100 characters in all; a line that is not body-like ends the
\* run; the content is filed under the first detected file name, or under
\* the generic name when no file name was detected.
\* ---------------------------------------------------------------------
BodyLike(lines, k) == is_structured_line(str_strip(lines[k]))

\* lines i..j are a contiguous run of body-like lines
IsRun(lines, i, j) == \A k \in i..j : BodyLike(lines, k)

RunText(lines, i, j) == str_join_lines([k \in 1..(j - i + 1) |-> str_strip(lines[i + k - 1])])

QualifyingRun(lines) ==
    \E i \in DOMAIN lines : \E j \in i..Len(lines) :
        /\ IsRun(lines, i, j)
        /\ j - i + 1 >= STRUCTURED_LINES_MIN
        /\ Len(RunText(lines, i, j)) > STRUCTURED_TEXT_MIN

C25_ContentIffRunOfFive ==
    det_pc = "done" =>
        LET lines == str_split_lines(detection_text(DetBuffer(det_in)))
        IN  /\ (det_out.attachment_contents # <<>>) <=> QualifyingRun(lines)
            /\ det_out.attachment_contents # <<>> =>
                   \A k \in DOMAIN det_out.attachment_contents :
                       det_out.attachment_contents[k].key =
                           IF det_out.attachments # <<>>
                           THEN det_out.attachments[1].filename
                           ELSE DETECTED_CONTENT


\* ---------------------------------------------------------------------
\* C26: when the extraction of the text of an attachment fails, the
\* failure is recorded on the record of that attachment as its error and
\* the record has no extracted text; the message of the failure is in no
\* extracted text, in no attachment content and not in the content of the
\* email; the other attachments and the parts of the body are processed
\* all the same.
\* ---------------------------------------------------------------------
NoExtractedText(info) ==
    "extracted_text" \in DOMAIN info => info.extracted_text.none

MessageOf(part) == exception_text(part.fault)

C26_FailureIsTheAttachmentsError ==
    (/\ file_pc = "done"
     /\ IsRouted(file_in, {EXT_EML})
     /\ "error" \notin DOMAIN file_parsed)
        => LET named  == SelectSeq(file_in.eml.parts, HasAttachment)
               bodies == SelectSeq(file_in.eml.parts, HasBodyText)
               infos  == file_parsed.attachments
               failed == {k \in DOMAIN named : named[k].fault # "none"}
           IN  /\ Len(infos) = Len(named)
               /\ \A k \in failed :
                      /\ "error" \in DOMAIN infos[k]
                      /\ NoExtractedText(infos[k])
                      /\ \A i \in DOMAIN file_parsed.attachment_contents :
                             ~str_contains(file_parsed.attachment_contents[i].value,
                                           MessageOf(named[k]))
                      /\ \A e \in DOMAIN emails_of_result(file_parsed) :
                             ~str_contains(emails_of_result(file_parsed)[e].content,
                                           MessageOf(named[k]))
               /\ \A k \in DOMAIN named \ failed :
                      infos[k] = process_attachment(named[k])
               /\ file_parsed.content =
                      str_join([k \in DOMAIN bodies |-> body_text(bodies[k])],
                               <<NL, NL>>)


\* ---------------------------------------------------------------------
\* C27: in the record _process_eml_file makes, the containers of the walk
\* add nothing; the content is the texts of the text/plain and text/html
\* leaves that are not attachments, joined with a blank line in the order
\* of the walk; the attachments are in the order of the walk; a part with
\* an attachment disposition is never part of the body.
\* ---------------------------------------------------------------------
RECURSIVE WalkBodyTexts(_)
WalkBodyTexts(parts) ==
    IF parts = <<>> THEN <<>>
    ELSE LET part == parts[1]
         IN  (IF part.content_type \notin {TEXT_PLAIN, TEXT_HTML}
                 \/ str_contains(part.disposition, ATTACHMENT)
                 \/ part.payload = <<>>
              THEN <<>>
              ELSE IF part.content_type = TEXT_PLAIN
              THEN <<decode_utf8(part.payload)>>
              ELSE <<html_to_text(decode_utf8(part.payload))>>)
                 \o WalkBodyTexts(Tail(parts))

RECURSIVE WalkAttachmentNames(_)
WalkAttachmentNames(parts) ==
    IF parts = <<>> THEN <<>>
    ELSE LET part == parts[1]
         IN  (IF part.content_type = MULTIPART_ALTERNATIVE
                 \/ ~str_contains(part.disposition, ATTACHMENT)
                 \/ part.filename = <<>>
              THEN <<>>
              ELSE IF part.fault = "payload" THEN <<UNKNOWN_ATTACHMENT>>
              ELSE <<part.filename>>)
                 \o WalkAttachmentNames(Tail(parts))

C27_ContainerWitness ==
    /\ eml_pc = "done"
    /\ eml_in.parts = <<EmlPart("alt"), EmlPart("plain"), EmlPart("doc")>>
    /\ eml_out.content = <<"h","i">>
    /\ Len(eml_out.attachments) = 1


\* ---------------------------------------------------------------------
\* C28: once the extractor is constructed, and after every set_max_workers
\* with a count of 0 or more, max_workers is between 1 and the ceiling 8,
\* so that the pool of a multi-page extraction can be made.
\* ---------------------------------------------------------------------
C28_CapacityBetweenOneAndCeiling ==
    workers_pc = "ready" => max_workers \in 1..HARD_CEILING


\* ---------------------------------------------------------------------
\* C29: in one call of summarize_emails_from_file on a .eml or .msg file,
\* the email records given to the summary and the file_format and
\* attachments_count reported come from one and the same parse of the
\* file, also when another actor replaces or removes the file during the
\* call.
\* ---------------------------------------------------------------------
C29_OneParsePerCall ==
    (/\ file_pc = "done"
     /\ "error" \notin DOMAIN file_result)
        => /\ file_email_data = file_parsed
           /\ file_result.file_format = dict_get(file_parsed, "format", "unknown")
           /\ file_result.attachments_count =
                  Len(dict_get(file_parsed, "attachments", <<>>))


\* ---------------------------------------------------------------------
\* C30: when two requests to /api/summarize are handled at the same time,
\* the result of each is made from the bytes that request uploaded, and
\* the file a request uploaded stays in place, with its bytes, until that
\* request has summarised it, also when both uploads have one file name.
\* ---------------------------------------------------------------------
Saved(r) == requests[r].uploaded /\ allowed_file(requests[r].filename)

C30_EachRequestItsOwnBytes ==
    \A r \in Requests :
        Saved(r) =>
            /\ handler_pc[r] = "saved" => disk[file_path[r]] = {requests[r].bytes}
            /\ handler_pc[r] \in {"summarized", "done"} =>
                   results[r] = [success |-> TRUE, summary_of |-> requests[r].bytes]

====
